---- MODULE Spec2Model ----
(***************************************************************************)
(* A model of the agree schema checker (package parser):                   *)
(*   - extractAgreeBlocks, the line scanner that carves agree blocks out   *)
(*     of a file's text (SpecExtract);                                     *)
(*   - ParseFilesWithGrammars / ParsePythonFiles, the scan that merges the *)
(*     parsed Model of every block into per-dialect collections (SpecScan);*)
(*   - CompareModels, the comparator of two collections (SpecCompare).     *)
(* Go strings that the code inspects character by character are sequences  *)
(* of one-character strings; Go's nil pointer / nil error is the empty     *)
(* sequence and a non-nil one a one-element sequence.                      *)
(***************************************************************************)
EXTENDS Integers, Sequences, FiniteSets, TLC

VARIABLES
    \* extractAgreeBlocks
    lines,      \* strings.Split(src, "\n")
    lineIdx,    \* number of lines the range loop has consumed
    current,    \* *agreeBlock: <<>> is nil (Outside), <<b>> is Inside
    blocks,     \* []agreeBlock built so far
    returned,   \* the slice the function returned
    xpc,        \* "idle" | "scan" | "done"
    openLine,   \* history: line number of the start marker of current
    spans,      \* history: <<start line, end line>> of every appended block
    \* ParseFilesWithGrammars / ParsePythonFiles
    mode,       \* "idle" | "grammar" (ParseFilesWithGrammars) | "legacy" (ParsePythonFiles)
    grammarDir, \* the grammar files of grammarDir in WalkDir order
    gIdx,       \* number of grammar files the first walk has finished
    grammars,   \* engine.grammars: dialect name -> source language
    files,      \* the files of dir in WalkDir order
    fileIdx,    \* number of files the walk has finished
    fileBlocks, \* blocks of the file being walked
    blockIdx,   \* number of blocks of that file already handled
    results,    \* schema type -> nickname -> Model: <<>> is nil, <<m>> a map
    err,        \* the error returned: <<>> is nil
    spc,        \* "idle" | "load" | "walk" | "file" | "done"
    \* CompareModels
    sqlModels,  \* left collection
    pydModels,  \* right collection
    visited,    \* nicknames of sqlModels the range loop has yielded
    sb,         \* strings.Builder: the pieces written so far
    report,     \* the string returned
    cpc,        \* "idle" | "lookup" | "loop" | "done"
    \* CompareModelsWithGrammars
    allModels,   \* models: schema type -> nickname -> Model
    schemaType1, \* the left schema type asked for
    schemaType2, \* the right schema type asked for
    \* TypeEquivalenceMap
    equivalences, \* tem.equivalences: type -> list of equivalent types
    type1,        \* first argument of the call
    type2,        \* second argument of the call
    equivalent,   \* the bool AreTypesEquivalent returned: <<>> before it returns
    baseType,     \* the base type extractNullableType returned
    isNullable,   \* the flag extractNullableType returned: <<>> before it returns
    tpc,          \* "idle" | "call" | "done" | "extracted"
    primaryType,     \* the first argument of the latest AddEquivalence call
    equivalentTypes, \* its variadic arguments, as a list
    \* GrammarEngine.extractModelFromAST
    root,          \* the top-level nodes of the region's syntax tree
    grammar,       \* the SchemaGrammar: Patterns and TypeMapping
    pIdx,          \* number of patterns the loop of line 132 has finished
    sIdx,          \* number of statements the loop of line 152 has finished
    patternFields, \* fields of extractFieldsWithPattern
    fields,        \* fields of extractModelFromAST
    parsed,        \* the Model returned: <<>> before the return
    perr,          \* the error returned: <<>> is nil
    epc,           \* "idle" | "find" | "rule" | "stmt" | "tsfind" | "pair" | "done" | "panic"
    \* GrammarEngine.extractTypeScriptModelFromAST
    modelName,     \* modelName: <<>> is the empty string
    objectExpr     \* objectExpr: <<>> is nil

exVars == <<lines, lineIdx, current, blocks, returned, xpc, openLine, spans>>
scVars == <<mode, grammarDir, gIdx, grammars, files, fileIdx, fileBlocks, blockIdx, results, err, spc>>
cmVars == <<sqlModels, pydModels, visited, sb, report, cpc>>
wgVars == <<allModels, schemaType1, schemaType2>>
teVars == <<equivalences, type1, type2, equivalent, baseType, isNullable, tpc, primaryType, equivalentTypes>>
enVars == <<root, grammar, pIdx, sIdx, patternFields, fields, parsed, perr, epc, modelName, objectExpr>>
vars == <<exVars, scVars, cmVars, wgVars, teVars, enVars>>

-----------------------------------------------------------------------------
(* Bounds *)

MaxLines == 4

MaxFiles == 2

MaxTypes == 2

MaxStmts == 2

MaxRules == 2

\* equivalent types passed to one AddEquivalence call
MaxEquivalents == 2

\* list items that AddEquivalence calls may add to the built-in table before
\* the last call
MaxGrowth == 4

-----------------------------------------------------------------------------
(* Go string helpers, on sequences of characters *)

Min(S) == CHOOSE x \in S : \A y \in S : x <= y

Max(S) == CHOOSE x \in S : \A y \in S : x >= y

\* strings.Index: 0-based offset of the first occurrence, -1 if none
Index(s, sub) ==
    LET hits == {k \in 0..(Len(s) - Len(sub)) : SubSeq(s, k + 1, k + Len(sub)) = sub}
    IN IF hits = {} THEN -1 ELSE Min(hits)

\* strings.Contains
Contains(s, sub) == Index(s, sub) # -1

\* s[from:] and s[:to] with Go's 0-based offsets
SliceFrom(s, from) == SubSeq(s, from + 1, Len(s))

SliceTo(s, to) == SubSeq(s, 1, to)

\* strings.SplitN(s, sep, 2)
SplitN2(s, sep) ==
    LET k == Index(s, sep)
    IN IF k = -1 THEN <<s>> ELSE <<SliceTo(s, k), SliceFrom(s, k + Len(sep))>>

IsSpace(c) == c \in {" ", "\t", "\r", "\n"}

\* strings.TrimSpace
TrimSpace(s) ==
    LET keep == {k \in 1..Len(s) : ~IsSpace(s[k])}
    IN IF keep = {} THEN <<>> ELSE SubSeq(s, Min(keep), Max(keep))

-----------------------------------------------------------------------------
(* extractAgreeBlocks *)

StartPrefix == <<"[", "a", "g", "r", "e", "e", ":">>

EndMarker == <<"[", "a", "g", "r", "e", "e", ":", "e", "n", "d", "]">>

NewBlock(nick, type) == [Nickname |-> nick, Type |-> type, Code |-> <<>>]

\* ParseHeader without the check of lines 175-177: a header with no closing
\* bracket runs to the end of the line
ParseHeaderNoBracketCheck(line) ==
    LET idx == Index(line, StartPrefix)
        rest == SliceFrom(line, idx + Len(StartPrefix))
        end == Index(rest, <<"]">>)
        header == IF end = -1 THEN rest ELSE SliceTo(rest, end)
        parts == SplitN2(header, <<":">>)
    IN IF idx = -1 THEN <<>>
       ELSE IF Len(parts) # 2 THEN <<>>
       ELSE <<NewBlock(TrimSpace(parts[1]), TrimSpace(parts[2]))>>

\* ParseHeader without the check of lines 180-182: a header with no colon
\* opens a block with an empty type
ParseHeaderNoColonCheck(line) ==
    LET idx == Index(line, StartPrefix)
        rest == SliceFrom(line, idx + Len(StartPrefix))
        end == Index(rest, <<"]">>)
        header == SliceTo(rest, end)
        parts == SplitN2(header, <<":">>)
    IN IF idx = -1 THEN <<>>
       ELSE IF end = -1 THEN <<>>
       ELSE IF Len(parts) # 2 THEN <<NewBlock(TrimSpace(parts[1]), <<>>)>>
       ELSE <<NewBlock(TrimSpace(parts[1]), TrimSpace(parts[2]))>>

\* The body of `if current == nil`: the block a line opens, <<>> if none.
ParseHeader(line) ==
    LET idx == Index(line, StartPrefix)
        rest == SliceFrom(line, idx + Len(StartPrefix))
        end == Index(rest, <<"]">>)
        header == SliceTo(rest, end)
        parts == SplitN2(header, <<":">>)
    IN IF idx = -1 THEN <<>>
       ELSE IF end = -1 THEN <<>>
       ELSE IF Len(parts) # 2 THEN <<>>
       ELSE <<NewBlock(TrimSpace(parts[1]), TrimSpace(parts[2]))>>

\* strings.Contains(line, "[agree:end]")
IsEndLine(line) == Contains(line, EndMarker)

\* current.Code += line + "\n"
AppendLine(b, line) == [b EXCEPT !.Code = @ \o line \o <<"\n">>]

\* BufferLine that lets a nested start marker open a new block
BufferLineReopen(cur, line) ==
    IF ParseHeader(line) # <<>> THEN ParseHeader(line) ELSE <<AppendLine(cur[1], line)>>

\* Inside, a line without the end marker: buffered, whatever it looks like
BufferLine(cur, line) == <<AppendLine(cur[1], line)>>

\* AppendBlock that puts the new block first
AppendBlockFirst(bs, cur) == <<cur[1]>> \o bs

\* blocks = append(blocks, *current)
AppendBlock(bs, cur) == Append(bs, cur[1])

\* ReturnBlocks that flushes the block still open at the end of the input
ReturnBlocksFlush(bs, cur) == IF cur = <<>> THEN bs ELSE Append(bs, cur[1])

\* return blocks: an open block is dropped
ReturnBlocks(bs, cur) == bs

\* The lines a text is drawn from: plain text, two well-formed start markers
\* (one padded with blanks and surrounded by other text), the end marker, a
\* header with no closing bracket, a header with no colon, and a line that
\* carries a start marker followed by the end marker.
PlainLine == <<"x">>

StartUP == <<"[", "a", "g", "r", "e", "e", ":", "u", ":", "p", "]">>

StartVQ == <<"#", "[", "a", "g", "r", "e", "e", ":", " ", "v", ":", "q", " ", "]", "x">>

EndLine == <<"#", "[", "a", "g", "r", "e", "e", ":", "e", "n", "d", "]">>

NoBracket == <<"[", "a", "g", "r", "e", "e", ":", "u", ":", "p">>

NoColon == <<"[", "a", "g", "r", "e", "e", ":", "u", "]">>

StartThenEnd == <<"[", "a", "g", "r", "e", "e", ":", "w", ":", "p", "]", "[", "a", "g", "r", "e", "e", ":", "e", "n", "d", "]">>

LinePool == {PlainLine, StartUP, StartVQ, EndLine, NoBracket, NoColon, StartThenEnd}

\* every text of 1..n lines (strings.Split never returns an empty slice)
Texts(n) == UNION {[1..k -> LinePool] : k \in 1..n}

ExtractIdle ==
    /\ lines = <<>> /\ lineIdx = 0 /\ current = <<>> /\ blocks = <<>>
    /\ returned = <<>> /\ xpc = "idle" /\ openLine = 0 /\ spans = <<>>

\* Outside, the line opens a block (lines 171-186, current assigned)
OutsideStart ==
    /\ xpc = "scan" /\ lineIdx < Len(lines) /\ current = <<>>
    /\ ParseHeader(lines[lineIdx + 1]) # <<>>
    /\ current' = ParseHeader(lines[lineIdx + 1])
    /\ openLine' = lineIdx + 1
    /\ lineIdx' = lineIdx + 1
    /\ UNCHANGED <<lines, blocks, returned, xpc, spans>>

\* Outside, the line opens nothing: no marker, or a malformed header
OutsideSkip ==
    /\ xpc = "scan" /\ lineIdx < Len(lines) /\ current = <<>>
    /\ ParseHeader(lines[lineIdx + 1]) = <<>>
    /\ lineIdx' = lineIdx + 1
    /\ UNCHANGED <<lines, current, blocks, returned, xpc, openLine, spans>>

\* Inside, the line contains the end marker (lines 188-192)
InsideEnd ==
    /\ xpc = "scan" /\ lineIdx < Len(lines) /\ current # <<>>
    /\ IsEndLine(lines[lineIdx + 1])
    /\ blocks' = AppendBlock(blocks, current)
    /\ spans' = Append(spans, <<openLine, lineIdx + 1>>)
    /\ current' = <<>>
    /\ lineIdx' = lineIdx + 1
    /\ UNCHANGED <<lines, returned, xpc, openLine>>

\* Inside, any other line is buffered (line 193)
InsideAppend ==
    /\ xpc = "scan" /\ lineIdx < Len(lines) /\ current # <<>>
    /\ ~IsEndLine(lines[lineIdx + 1])
    /\ current' = BufferLine(current, lines[lineIdx + 1])
    /\ lineIdx' = lineIdx + 1
    /\ UNCHANGED <<lines, blocks, returned, xpc, openLine, spans>>

\* the loop is over (line 195)
ExtractReturn ==
    /\ xpc = "scan" /\ lineIdx = Len(lines)
    /\ returned' = ReturnBlocks(blocks, current)
    /\ xpc' = "done"
    /\ UNCHANGED <<lines, lineIdx, current, blocks, openLine, spans>>

\* the whole function, as its callers use it
RECURSIVE ExtractFrom(_, _, _, _)
ExtractFrom(ls, k, cur, bs) ==
    IF k > Len(ls) THEN ReturnBlocks(bs, cur)
    ELSE IF cur = <<>> THEN ExtractFrom(ls, k + 1, ParseHeader(ls[k]), bs)
    ELSE IF IsEndLine(ls[k]) THEN ExtractFrom(ls, k + 1, <<>>, AppendBlock(bs, cur))
    ELSE ExtractFrom(ls, k + 1, BufferLine(cur, ls[k]), bs)

extractAgreeBlocks(ls) == ExtractFrom(ls, 1, <<>>, <<>>)

-----------------------------------------------------------------------------
(* Properties of extractAgreeBlocks (SpecExtract) *)

\* the line being consumed by the step out of this state
ThisLine == lines[lineIdx + 1]

\* 1-based position of the first character after the first "[agree:"
HeaderStart(line) == Index(line, StartPrefix) + Len(StartPrefix) + 1

HasMarker(line) == Index(line, StartPrefix) # -1

\* positions of the closing brackets after the first "[agree:"
Closings(line) == {j \in HeaderStart(line)..Len(line) : line[j] = "]"}

\* positions of the colons of the header
Colons(line) == {c \in HeaderStart(line)..(Min(Closings(line)) - 1) : line[c] = ":"}

\* a start marker [agree:<nickname>:<dialect>]
WellFormedStart(line) ==
    /\ HasMarker(line)
    /\ Closings(line) # {}
    /\ Colons(line) # {}

\* a header with no closing bracket after it, or no colon in it
MalformedHeader(line) ==
    /\ HasMarker(line)
    /\ \/ Closings(line) = {}
       \/ Colons(line) = {}

HeaderNick(line) == TrimSpace(SubSeq(line, HeaderStart(line), Min(Colons(line)) - 1))

HeaderType(line) == TrimSpace(SubSeq(line, Min(Colons(line)) + 1, Min(Closings(line)) - 1))

\* the lines from..to of the text, each followed by a line feed
RECURSIVE JoinLines(_, _, _)
JoinLines(ls, from, to) ==
    IF from > to THEN <<>> ELSE ls[from] \o <<"\n">> \o JoinLines(ls, from + 1, to)

\* the region delimited by the start line span[1] and the end line span[2]
RegionOf(ls, span) ==
    [Nickname |-> HeaderNick(ls[span[1]]), Type |-> HeaderType(ls[span[1]]),
     Code |-> JoinLines(ls, span[1] + 1, span[2] - 1)]

\* C2: when the input ends inside a block, the open block yields no region:
\* the function returns exactly the regions closed before, one per end marker
\* that closed a block, none of them starting at the open block's start line.
C2_UnterminatedDropped ==
    (xpc = "done" /\ current # <<>>) =>
        /\ returned = blocks
        /\ Len(returned) = Len(spans)
        /\ \A k \in 1..Len(spans) : spans[k][2] < openLine
        /\ \A k \in 1..Len(returned) : returned[k] = RegionOf(lines, spans[k])

\* a closed region is returned although a later block, with buffered lines,
\* is still open at the end of the input
C2_Witness ==
    /\ xpc = "done" /\ current # <<>> /\ current[1].Code # <<>>
    /\ Len(returned) >= 1

C3_RegionsInv ==
    /\ Len(blocks) = Len(spans)
    /\ \A k \in 1..Len(spans) :
          /\ spans[k][1] < spans[k][2] /\ spans[k][2] <= lineIdx
          /\ WellFormedStart(lines[spans[k][1]])
          /\ Contains(lines[spans[k][2]], EndMarker)
          \* the start line was met Outside: after the end of the region before
          /\ k > 1 => spans[k - 1][2] < spans[k][1]
          \* the end line was met Inside: no end marker between the two
          /\ \A j \in (spans[k][1] + 1)..(spans[k][2] - 1) : ~Contains(lines[j], EndMarker)
          /\ blocks[k].Nickname = HeaderNick(lines[spans[k][1]])
          /\ blocks[k].Type = HeaderType(lines[spans[k][1]])
    /\ xpc = "done" => Len(returned) = Len(spans)
    /\ (xpc = "done" /\ \A k \in 1..Len(lines) : ~HasMarker(lines[k])) => returned = <<>>

\* Outside, a line containing the end marker emits nothing; unless it is
\* itself a start-marker line (a well-formed header precedes the end marker on
\* it), it leaves the state Outside
C3_EndLineOutside ==
    (/\ xpc = "scan" /\ lineIdx < Len(lines) /\ current = <<>>
     /\ Contains(ThisLine, EndMarker))
    => /\ blocks' = blocks
       /\ ~WellFormedStart(ThisLine) => current' = <<>>

C4_NestedBuffered ==
    (/\ xpc = "scan" /\ lineIdx < Len(lines) /\ current # <<>>
     /\ WellFormedStart(ThisLine))
    => IF Contains(ThisLine, EndMarker)
       \* it also carries the end marker: it ends the block as any such line
       THEN current' = <<>> /\ blocks' = Append(blocks, current[1])
       ELSE /\ current' = <<[Nickname |-> current[1].Nickname, Type |-> current[1].Type,
                             Code |-> current[1].Code \o ThisLine \o <<"\n">>]>>
            /\ blocks' = blocks

C4_OneRegion ==
    \A k \in 1..Len(blocks) :
        /\ k <= Len(spans)
        /\ blocks[k] = RegionOf(lines, spans[k])

\* C4: Inside, a line that looks like a start marker opens no block and leaves
\* nickname and dialect alone; it is buffered, so the region between an outer
\* start and the end carries the outer tags and holds the nested marker line.
C4_NestingSwallowed == [][C4_NestedBuffered]_vars /\ [](C4_OneRegion)

\* one region whose code holds a nested start marker of another nickname
C4_Witness ==
    /\ xpc = "done" /\ Len(returned) = 1
    /\ \E j \in (spans[1][1] + 1)..(spans[1][2] - 1) :
          /\ WellFormedStart(lines[j])
          /\ HeaderNick(lines[j]) # returned[1].Nickname
          /\ Contains(returned[1].Code, lines[j])

\* C5: Outside, a line with "[agree:" and a malformed header leaves the state
\* Outside and emits nothing, exactly as a line without a marker does.
C5_MalformedIgnored ==
    [][(/\ xpc = "scan" /\ lineIdx < Len(lines) /\ current = <<>>
        /\ MalformedHeader(ThisLine))
       => (/\ current' = <<>> /\ blocks' = blocks /\ spans' = spans
           /\ lineIdx' = lineIdx + 1 /\ xpc' = "scan")]_vars

\* a malformed header was met Outside and a later block was still extracted
C5_Witness ==
    /\ xpc = "done" /\ Len(returned) >= 1
    /\ MalformedHeader(lines[1]) /\ Closings(lines[1]) = {}
    /\ \E k \in 2..Len(lines) :
          /\ MalformedHeader(lines[k]) /\ Closings(lines[k]) # {}
          /\ \A j \in 1..Len(spans) : k < spans[j][1] \/ k > spans[j][2]

\* C6: the returned regions are in the order of their blocks in the text: the
\* k-th region is the block of the k-th span, and each span ends before the
\* next one starts.
C6_AppearanceOrder ==
    xpc = "done" =>
        /\ Len(returned) = Len(spans)
        /\ \A k \in 1..Len(returned) : returned[k] = RegionOf(lines, spans[k])
        /\ \A k \in 1..(Len(spans) - 1) : spans[k][2] < spans[k + 1][1]

\* two different regions were returned
C6_Witness ==
    /\ xpc = "done" /\ Len(returned) = 2
    /\ returned[1].Nickname # returned[2].Nickname

-----------------------------------------------------------------------------
(* ParseFilesWithGrammars and ParsePythonFiles *)

Pydantic == <<"p", "y", "d", "a", "n", "t", "i", "c">>

Sqlalchemy == <<"s", "q", "l", "a", "l", "c", "h", "e", "m", "y">>

Zod == <<"z", "o", "d">>

\* a comment line carrying the start marker of nickname nick, dialect type
MarkerLine(nick, type) == <<"#", " ">> \o StartPrefix \o nick \o <<":">> \o type \o <<"]">>

\* The external syntax-tree parser is not modelled.  A block's code is made
\* of one-character lines, each standing for one top-level construct:
\*   "K"  a Python class definition header (class K)
\*   "S"  an exported binding KSchema = z.object({...})
\*   "i"  the field id of type int      "s"  the field id of type str
\*   "n"  the field name of type str    other characters: no construct
FieldOfToken(c) ==
    IF c = "i" THEN <<[Name |-> "id", Type |-> "int"]>>
    ELSE IF c = "s" THEN <<[Name |-> "id", Type |-> "str"]>>
    ELSE IF c = "n" THEN <<[Name |-> "name", Type |-> "str"]>>
    ELSE <<>>

\* fields[name] = field for every declaration in order: the later one wins
FieldsOf(code) ==
    LET decl == {k \in 1..Len(code) : FieldOfToken(code[k]) # <<>>}
        names == {FieldOfToken(code[k])[1].Name : k \in decl}
        last(n) == Max({k \in decl : FieldOfToken(code[k])[1].Name = n})
    IN [n \in names |-> FieldOfToken(code[last(n)])[1]]

ParseOk(name, code) == [ok |-> TRUE, model |-> [Name |-> name, Fields |-> FieldsOf(code)], msg |-> ""]

ParseErr(msg) == [ok |-> FALSE, model |-> [Name |-> "", Fields |-> <<>>], msg |-> msg]

HasToken(code, c) == \E k \in 1..Len(code) : code[k] = c

\* engine.ParseModel: declaration style, fails without a class definition
ParseModel(code) ==
    IF HasToken(code, "K") THEN ParseOk("K", code) ELSE ParseErr("no class definition found")

\* engine.ParseTypeScriptModel: object-literal style
ParseTypeScriptModel(code) ==
    IF HasToken(code, "S") THEN ParseOk("K", code) ELSE ParseErr("no schema object found")

\* parsePythonModel of the legacy scan
parsePythonModel(code) ==
    IF HasToken(code, "K") THEN ParseOk("K", code) ELSE ParseErr("no class definition found")

\* the extensions ParseFilesWithGrammars reads (line 55)
IsScannedExt(ext) == ext \in {".py", ".ts", ".tsx"}

\* lines 74-78 of ParseFilesWithGrammars; the switch of ParsePythonFiles
ParseBlock(md, ext, b) ==
    IF md = "legacy" THEN parsePythonModel(b.Code)
    ELSE IF ext = ".py" THEN ParseModel(b.Code)
    ELSE ParseTypeScriptModel(b.Code)

\* MergeModel that updates the stored Model field by field, so that a field
\* only the earlier Model had stays
MergeModelKeepFields(models, nick, model) ==
    [n \in DOMAIN models \cup {nick} |->
        IF n # nick THEN models[n]
        ELSE IF nick \notin DOMAIN models THEN model
        ELSE [Name |-> model.Name,
              Fields |-> [f \in DOMAIN models[nick].Fields \cup DOMAIN model.Fields |->
                            IF f \in DOMAIN model.Fields THEN model.Fields[f]
                            ELSE models[nick].Fields[f]]]]

\* models[block.Nickname] = model
MergeModel(models, nick, model) ==
    [n \in DOMAIN models \cup {nick} |-> IF n = nick THEN model ELSE models[n]]

EmptyModels == [n \in {} |-> [Name |-> "", Fields |-> <<>>]]

\* The grammar files of grammarDir in walk (lexical) order; rules.json is
\* unreadable or does not parse.
GrammarFilePool ==
    << [path |-> "pydantic.json", ok |-> TRUE, name |-> Pydantic, language |-> "python"],
       [path |-> "rules.json", ok |-> FALSE, name |-> <<>>, language |-> ""],
       [path |-> "sqlalchemy.json", ok |-> TRUE, name |-> Sqlalchemy, language |-> "python"],
       [path |-> "zod.json", ok |-> TRUE, name |-> Zod, language |-> "typescript"] >>

\* the subsequence of s at the positions in S
RECURSIVE Pick(_, _, _)
Pick(s, S, k) ==
    IF k > Len(s) THEN <<>>
    ELSE (IF k \in S THEN <<s[k]>> ELSE <<>>) \o Pick(s, S, k + 1)

GrammarDirs == {Pick(GrammarFilePool, S, 1) : S \in SUBSET (1..Len(GrammarFilePool))}

U == <<"u">>

V == <<"v">>

EndOfBlock == <<"#", " ">> \o EndMarker

\* The source files a tree is drawn from.
FilePool ==
    { [path |-> "a.py", ext |-> ".py",
       lines |-> << MarkerLine(U, Pydantic), <<"K">>, <<"i">>, EndOfBlock,
                    MarkerLine(U, Pydantic), <<"K">>, <<"s">>, <<"n">>, EndOfBlock >>],
      [path |-> "b.py", ext |-> ".py",
       lines |-> << MarkerLine(U, Pydantic), <<"K">>, <<"n">>, EndOfBlock,
                    MarkerLine(V, Sqlalchemy), <<"K">>, <<"i">>, EndOfBlock >>],
      [path |-> "c.py", ext |-> ".py",
       lines |-> << MarkerLine(U, Sqlalchemy), <<"x">>, EndOfBlock,
                    MarkerLine(V, Pydantic), <<"K">>, <<"i">>, EndOfBlock >>],
      [path |-> "d.ts", ext |-> ".ts",
       lines |-> << MarkerLine(U, Zod), <<"S">>, <<"i">>, EndOfBlock >>],
      [path |-> "e.py", ext |-> ".py",
       lines |-> << MarkerLine(U, Zod), <<"K">>, <<"s">>, EndOfBlock,
                    MarkerLine(U, Sqlalchemy), <<"K">>, <<"s">>, EndOfBlock >>],
      [path |-> "f.txt", ext |-> ".txt",
       lines |-> << MarkerLine(U, Pydantic), <<"K">>, <<"n">>, <<"i">>, EndOfBlock >>] }

Trees(n) == UNION {[1..k -> FilePool] : k \in 0..n}

ScanIdle ==
    /\ mode = "idle" /\ grammarDir = <<>> /\ gIdx = 0 /\ grammars = <<>>
    /\ files = <<>> /\ fileIdx = 0 /\ fileBlocks = <<>> /\ blockIdx = 0
    /\ results = <<>> /\ err = <<>> /\ spc = "idle"

\* ge.grammars[grammar.Name] = grammar
AddGrammar(gs, g) ==
    [n \in DOMAIN gs \cup {g.name} |-> IF n = g.name THEN g.language ELSE gs[n]]

\* MakeResults without the loop of lines 37-39: collections would be made on
\* first use
MakeResultsLazy(gs) == [n \in {} |-> EmptyModels]

\* results[grammarName] = make(map[string]Model) for every loaded grammar
MakeResults(gs) == [n \in DOMAIN gs |-> EmptyModels]

\* sqlModels and pydModels of ParsePythonFiles, keyed by the tag of its switch
LegacyResults == [n \in {Sqlalchemy, Pydantic} |-> EmptyModels]

\* engine.LoadGrammar succeeds on the next grammar file (lines 20-28)
LoadGrammarOk ==
    /\ spc = "load" /\ gIdx < Len(grammarDir)
    /\ grammarDir[gIdx + 1].ok
    /\ grammars' = AddGrammar(grammars, grammarDir[gIdx + 1])
    /\ gIdx' = gIdx + 1
    /\ UNCHANGED <<mode, grammarDir, files, fileIdx, fileBlocks, blockIdx, results, err, spc>>

\* LoadGrammarFail that notes the error and goes on to the next grammar file
LoadGrammarFailSkips ==
    /\ spc = "load" /\ gIdx < Len(grammarDir)
    /\ ~grammarDir[gIdx + 1].ok
    /\ err' = <<[kind |-> "failed to load grammars", path |-> grammarDir[gIdx + 1].path,
                 type |-> <<>>, nick |-> <<>>, msg |-> "failed to parse grammar file"]>>
    /\ gIdx' = gIdx + 1
    /\ UNCHANGED <<mode, grammarDir, grammars, files, fileIdx, fileBlocks, blockIdx, results, spc>>

\* engine.LoadGrammar fails: the walk stops, return nil, err (lines 29-31)
LoadGrammarFail ==
    /\ spc = "load" /\ gIdx < Len(grammarDir)
    /\ ~grammarDir[gIdx + 1].ok
    /\ err' = <<[kind |-> "failed to load grammars", path |-> grammarDir[gIdx + 1].path,
                 type |-> <<>>, nick |-> <<>>, msg |-> "failed to parse grammar file"]>>
    /\ results' = <<>>
    /\ spc' = "done"
    /\ UNCHANGED <<mode, grammarDir, gIdx, grammars, files, fileIdx, fileBlocks, blockIdx>>

\* every grammar file is loaded (lines 33-39)
InitResults ==
    /\ spc = "load" /\ gIdx = Len(grammarDir)
    /\ results' = <<MakeResults(grammars)>>
    /\ spc' = "walk"
    /\ UNCHANGED <<mode, grammarDir, gIdx, grammars, files, fileIdx, fileBlocks, blockIdx, err>>

\* a file with another extension is passed over (lines 54-57)
WalkSkipFile ==
    /\ spc = "walk" /\ fileIdx < Len(files)
    /\ mode = "grammar" /\ ~IsScannedExt(files[fileIdx + 1].ext)
    /\ fileIdx' = fileIdx + 1
    /\ UNCHANGED <<mode, grammarDir, gIdx, grammars, files, fileBlocks, blockIdx, results, err, spc>>

\* blocks := extractAgreeBlocks(string(src))
WalkOpenFile ==
    /\ spc = "walk" /\ fileIdx < Len(files)
    /\ IF mode = "grammar" THEN IsScannedExt(files[fileIdx + 1].ext) ELSE TRUE
    /\ fileBlocks' = extractAgreeBlocks(files[fileIdx + 1].lines)
    /\ blockIdx' = 0
    /\ spc' = "file"
    /\ UNCHANGED <<mode, grammarDir, gIdx, grammars, files, fileIdx, results, err>>

\* no collection for the block's type: the block is passed over
BlockSkip ==
    /\ spc = "file" /\ blockIdx < Len(fileBlocks)
    /\ fileBlocks[blockIdx + 1].Type \notin DOMAIN results[1]
    /\ blockIdx' = blockIdx + 1
    /\ UNCHANGED <<mode, grammarDir, gIdx, grammars, files, fileIdx, fileBlocks, results, err, spc>>

\* the block parses: models[block.Nickname] = model
BlockMerge ==
    /\ spc = "file" /\ blockIdx < Len(fileBlocks)
    /\ LET b == fileBlocks[blockIdx + 1]
           r == ParseBlock(mode, files[fileIdx + 1].ext, b)
       IN /\ b.Type \in DOMAIN results[1]
          /\ r.ok
          /\ results' = <<[results[1] EXCEPT ![b.Type] = MergeModel(@, b.Nickname, r.model)]>>
    /\ blockIdx' = blockIdx + 1
    /\ UNCHANGED <<mode, grammarDir, gIdx, grammars, files, fileIdx, fileBlocks, err, spc>>

\* BlockFail that returns nil with the error, as lines 29-31 do
BlockFailNil ==
    /\ spc = "file" /\ blockIdx < Len(fileBlocks)
    /\ LET b == fileBlocks[blockIdx + 1]
           r == ParseBlock(mode, files[fileIdx + 1].ext, b)
       IN /\ b.Type \in DOMAIN results[1]
          /\ ~r.ok
          /\ err' = <<[kind |-> "failed to parse block", path |-> files[fileIdx + 1].path,
                       type |-> IF mode = "grammar" THEN b.Type ELSE <<>>,
                       nick |-> IF mode = "grammar" THEN b.Nickname ELSE <<>>,
                       msg |-> r.msg]>>
    /\ results' = <<>>
    /\ spc' = "done"
    /\ UNCHANGED <<mode, grammarDir, gIdx, grammars, files, fileIdx, fileBlocks, blockIdx>>

\* the block does not parse: the callback returns the error and the walk ends
BlockFail ==
    /\ spc = "file" /\ blockIdx < Len(fileBlocks)
    /\ LET b == fileBlocks[blockIdx + 1]
           r == ParseBlock(mode, files[fileIdx + 1].ext, b)
       IN /\ b.Type \in DOMAIN results[1]
          /\ ~r.ok
          /\ err' = <<[kind |-> "failed to parse block", path |-> files[fileIdx + 1].path,
                       type |-> IF mode = "grammar" THEN b.Type ELSE <<>>,
                       nick |-> IF mode = "grammar" THEN b.Nickname ELSE <<>>,
                       msg |-> r.msg]>>
    /\ spc' = "done"
    /\ UNCHANGED <<mode, grammarDir, gIdx, grammars, files, fileIdx, fileBlocks, blockIdx, results>>

\* the callback returns nil: on to the next file
FileDone ==
    /\ spc = "file" /\ blockIdx = Len(fileBlocks)
    /\ fileIdx' = fileIdx + 1
    /\ spc' = "walk"
    /\ UNCHANGED <<mode, grammarDir, gIdx, grammars, files, fileBlocks, blockIdx, results, err>>

\* the walk is over: return results, nil
WalkDone ==
    /\ spc = "walk" /\ fileIdx = Len(files)
    /\ spc' = "done"
    /\ UNCHANGED <<mode, grammarDir, gIdx, grammars, files, fileIdx, fileBlocks, blockIdx, results, err>>

-----------------------------------------------------------------------------
(* Properties of the scan (SpecScan) *)

\* whether the walk reads the file at all
FileIsRead(md, f) == md = "legacy" \/ f.ext \in {".py", ".ts", ".tsx"}

TagBlocks(bs, f) == [k \in 1..Len(bs) |-> [block |-> bs[k], ext |-> f.ext, path |-> f.path]]

\* the regions of the files fs[k..], in walk order then appearance order
RECURSIVE RegionsFrom(_, _, _)
RegionsFrom(md, fs, k) ==
    IF k > Len(fs) THEN <<>>
    ELSE (IF FileIsRead(md, fs[k]) THEN TagBlocks(extractAgreeBlocks(fs[k].lines), fs[k]) ELSE <<>>)
         \o RegionsFrom(md, fs, k + 1)

RECURSIVE Keep(_, _, _)
Keep(rs, types, k) ==
    IF k > Len(rs) THEN <<>>
    ELSE (IF rs[k].block.Type \in types THEN <<rs[k]>> ELSE <<>>) \o Keep(rs, types, k + 1)

\* the regions whose dialect has a collection
Candidates == Keep(RegionsFrom(mode, files, 1), DOMAIN results[1], 1)

ModelOfRegion(r) == ParseBlock(mode, r.ext, r.block)

\* the regions that produced a Model: those before the first that does not parse
Produced ==
    LET cs == Candidates
        bad == {k \in 1..Len(cs) : ~ModelOfRegion(cs[k]).ok}
    IN IF bad = {} THEN cs ELSE SubSeq(cs, 1, Min(bad) - 1)

\* positions in the sequence rs of the regions of dialect d and nickname n
RegionsOf(rs, d, n) ==
    {k \in 1..Len(rs) : rs[k].block.Type = d /\ rs[k].block.Nickname = n}

\* C1: at the end of a scan, every collection holds, for every nickname, exactly
\* the Model of the last region of that nickname and dialect, whole, and holds
\* no nickname for which no region produced a Model.
C1_LastWriteWins ==
    (spc = "done" /\ results # <<>>) =>
        LET rs == Produced
        IN \A d \in DOMAIN results[1] :
              /\ DOMAIN results[1][d] = {rs[k].block.Nickname : k \in {j \in 1..Len(rs) : rs[j].block.Type = d}}
              /\ \A n \in DOMAIN results[1][d] :
                    results[1][d][n] = ModelOfRegion(rs[Max(RegionsOf(rs, d, n))]).model

\* a scan ended in which a nickname was written twice in one collection, the
\* earlier Model having a field the later one lacks
C1_Witness ==
    /\ spc = "done" /\ results # <<>> /\ err = <<>>
    /\ LET rs == Produced
       IN \E d \in DOMAIN results[1] : \E n \in DOMAIN results[1][d] :
             \E k \in RegionsOf(rs, d, n) :
                 /\ k < Max(RegionsOf(rs, d, n))
                 /\ \E f \in DOMAIN ModelOfRegion(rs[k]).model.Fields :
                       f \notin DOMAIN results[1][d][n].Fields

\* the positions of the grammar files of grammarDir that do not load
BadGrammars == {i \in 1..Len(grammarDir) : ~grammarDir[i].ok}

Unparsed == {k \in 1..Len(Candidates) : ~ModelOfRegion(Candidates[k]).ok}

\* C19: when a region tagged with a loaded dialect has no recognizable model
\* definition, the scan stops at that region and returns an error that
\* identifies the file path and the region's nickname; no region after it in
\* the same file and no later file is parsed or merged.
C19_AbortNamesRegion ==
    (spc = "done" /\ results # <<>> /\ Unparsed # {}) =>
        LET r == Candidates[Min(Unparsed)]
            before == SubSeq(Candidates, 1, Min(Unparsed) - 1)
        IN /\ err # <<>>
           /\ files[fileIdx + 1].path = r.path /\ fileBlocks[blockIdx + 1] = r.block
           /\ err[1].path = r.path
           /\ err[1].nick = r.block.Nickname
           /\ \A d \in DOMAIN results[1] :
                 DOMAIN results[1][d] = {before[k].block.Nickname : k \in {j \in 1..Len(before) : before[j].block.Type = d}}

\* the extraction that the source language of a grammar calls for
ByLanguage(language, code) ==
    IF language = "python" THEN ParseModel(code) ELSE ParseTypeScriptModel(code)

\* the step taken on the next region of a loaded dialect is the one that the
\* strategy of the dialect's grammar gives, whatever file holds the region
C21_RegionStep ==
    (mode = "grammar" /\ spc = "file" /\ blockIdx < Len(fileBlocks)
        /\ fileBlocks[blockIdx + 1].Type \in DOMAIN results[1]) =>
        LET b == fileBlocks[blockIdx + 1]
            r == ByLanguage(grammars[b.Type], b.Code)
        IN IF r.ok
           THEN /\ err' = err
                /\ results' = <<[results[1] EXCEPT ![b.Type] = MergeModel(@, b.Nickname, r.model)]>>
           ELSE /\ results' = results
                /\ err' # <<>> /\ err'[1].msg = r.msg

\* C21: the extraction strategy applied to a region (declaration style or
\* object-literal style) is determined by the source language of the grammar
\* that the region's dialect tag names, so a region of a given dialect is
\* extracted with the same strategy whatever file it was found in.
C21_StrategyByGrammar == [][C21_RegionStep]_vars

\* C28: when the scan of ParseFilesWithGrammars aborts on a region without a
\* model definition, the collections returned with the error still hold every
\* Model merged before the failing region; a grammar-loading failure returns
\* no collections at all.
C28_PartialResultsKept ==
    (mode = "grammar" /\ spc = "done" /\ err # <<>>) =>
        IF err[1].kind = "failed to load grammars" THEN results = <<>>
        ELSE /\ results # <<>>
             /\ DOMAIN results[1] = DOMAIN grammars
             /\ LET rs == SubSeq(Candidates, 1, Min(Unparsed) - 1)
                IN \A k \in 1..Len(rs) :
                      LET d == rs[k].block.Type
                          n == rs[k].block.Nickname
                      IN /\ n \in DOMAIN results[1][d]
                         /\ results[1][d][n] = ModelOfRegion(rs[Max(RegionsOf(rs, d, n))]).model

\* a scan that aborted on a region of its second file after merging Models
\* of two dialects
C28_Witness ==
    /\ mode = "grammar" /\ spc = "done" /\ err # <<>>
    /\ err[1].kind = "failed to parse block"
    /\ fileIdx = 1
    /\ results # <<>>
    /\ Cardinality({d \in DOMAIN results[1] : results[1][d] # EmptyModels}) >= 2

-----------------------------------------------------------------------------
(* CompareModels.  A Go string is the sequence of the pieces it is made of:  *)
(* a name is one piece, a literal of the format is one piece.                *)

Nicknames == {"user", "post"}

FieldNames == {"id", "email"}

TypePool == <<"integer", "string", "number">>

TypeNames == {TypePool[k] : k \in 1..MaxTypes}

\* every Fields map over a subset of FieldNames
FieldMaps ==
    UNION {[S -> TypeNames] : S \in SUBSET FieldNames}

MakeModel(fm) == [Name |-> "M", Fields |-> [f \in DOMAIN fm |-> [Name |-> f, Type |-> fm[f]]]]

Models == {MakeModel(fm) : fm \in FieldMaps}

\* every collection over a subset of Nicknames
Collections == UNION {[S -> Models] : S \in SUBSET Nicknames}

\* the orders in which a range loop may yield the keys S of a map
Orders(S) == {o \in [1..Cardinality(S) -> S] : \A a, b \in 1..Cardinality(S) : o[a] = o[b] => a = b}

\* sf.Type != f.Type (line 302)
TypesDiffer(leftType, rightType) == leftType # rightType

\* Sprintf with the two types in the other order
SprintfSwapped(fname, leftType, rightType) == <<fname, " (", rightType, " != ", leftType, ")">>

\* fmt.Sprintf("%s (%s != %s)", fname, sf.Type, f.Type)
Sprintf(fname, leftType, rightType) == <<fname, " (", leftType, " != ", rightType, ")">>

\* the loop over pydModel.Fields (lines 296-305), for the names order[k..]
RECURSIVE RightLoop(_, _, _, _)
RightLoop(sqlModel, pydModel, order, k) ==
    IF k > Len(order) THEN [missingSQL |-> <<>>, typeMismatch |-> <<>>]
    ELSE LET fname == order[k]
             rest == RightLoop(sqlModel, pydModel, order, k + 1)
         IN IF fname \notin DOMAIN sqlModel.Fields
            THEN [rest EXCEPT !.missingSQL = <<(<<fname>>)>> \o @]
            ELSE IF TypesDiffer(sqlModel.Fields[fname].Type, pydModel.Fields[fname].Type)
            THEN [rest EXCEPT !.typeMismatch =
                     <<Sprintf(fname, sqlModel.Fields[fname].Type, pydModel.Fields[fname].Type)>> \o @]
            ELSE rest

\* the loop over sqlModel.Fields (lines 306-310), for the names order[k..]
RECURSIVE LeftLoop(_, _, _, _)
LeftLoop(sqlModel, pydModel, order, k) ==
    IF k > Len(order) THEN <<>>
    ELSE IF order[k] \notin DOMAIN pydModel.Fields
    THEN <<(<<order[k]>>)>> \o LeftLoop(sqlModel, pydModel, order, k + 1)
    ELSE LeftLoop(sqlModel, pydModel, order, k + 1)

\* Lists with the two missing lists filled from the wrong loops
ListsSwapped(sqlModel, pydModel, rightOrder, leftOrder) ==
    [missingSQL |-> LeftLoop(sqlModel, pydModel, leftOrder, 1),
     missingPyd |-> RightLoop(sqlModel, pydModel, rightOrder, 1).missingSQL,
     typeMismatch |-> RightLoop(sqlModel, pydModel, rightOrder, 1).typeMismatch]

\* the three lists of one shared nickname (lines 293-310)
Lists(sqlModel, pydModel, rightOrder, leftOrder) ==
    [missingSQL |-> RightLoop(sqlModel, pydModel, rightOrder, 1).missingSQL,
     missingPyd |-> LeftLoop(sqlModel, pydModel, leftOrder, 1),
     typeMismatch |-> RightLoop(sqlModel, pydModel, rightOrder, 1).typeMismatch]

\* strings.Join(list, ", ")
RECURSIVE Join(_)
Join(list) ==
    IF list = <<>> THEN <<>>
    ELSE IF Len(list) = 1 THEN list[1]
    ELSE list[1] \o <<", ">> \o Join(Tail(list))

\* what lines 311-322 write for one nickname
RenderNick(nick, l) ==
    IF Len(l.missingSQL) + Len(l.missingPyd) + Len(l.typeMismatch) > 0
    THEN <<"Model ", nick, ":\n">>
         \o (IF Len(l.missingSQL) > 0
             THEN <<"  Missing in SQLAlchemy: ">> \o Join(l.missingSQL) \o <<"\n">> ELSE <<>>)
         \o (IF Len(l.missingPyd) > 0
             THEN <<"  Missing in Pydantic: ">> \o Join(l.missingPyd) \o <<"\n">> ELSE <<>>)
         \o (IF Len(l.typeMismatch) > 0
             THEN <<"  Type mismatches: ">> \o Join(l.typeMismatch) \o <<"\n">> ELSE <<>>)
    ELSE <<>>

\* IterationText that reports a nickname pydModels lacks as a model whose
\* fields are all missing there
IterationTextOrphans(nick, sqlM, pydM, rightOrder, leftOrder) ==
    IF nick \notin DOMAIN pydM
    THEN <<"Model ", nick, ":\n", "  Missing in Pydantic: ", "*", "\n">>
    ELSE RenderNick(nick, Lists(sqlM[nick], pydM[nick], rightOrder, leftOrder))

\* what one iteration of the outer loop writes (lines 288-322)
IterationText(nick, sqlM, pydM, rightOrder, leftOrder) ==
    IF nick \notin DOMAIN pydM THEN <<>>
    ELSE RenderNick(nick, Lists(sqlM[nick], pydM[nick], rightOrder, leftOrder))

NoMismatches == <<"No mismatches found">>

\* Result without the sentinel
ResultNoSentinel(sbuf) == sbuf

\* lines 324-327
Result(sbuf) == IF Len(sbuf) = 0 THEN NoMismatches ELSE sbuf

CompareIdle ==
    /\ sqlModels = <<>> /\ pydModels = <<>> /\ visited = {} /\ sb = <<>>
    /\ report = <<>> /\ cpc = "idle"

\* the outer loop yields a nickname pydModels does not have (lines 289-292)
CompareSkip ==
    /\ cpc = "loop"
    /\ \E nick \in DOMAIN sqlModels \ visited :
          /\ nick \notin DOMAIN pydModels
          /\ sb' = sb \o IterationText(nick, sqlModels, pydModels, <<>>, <<>>)
          /\ visited' = visited \cup {nick}
    /\ UNCHANGED <<sqlModels, pydModels, report, cpc>>

\* the outer loop yields a nickname of both collections; the two inner loops
\* meet the fields in some order
CompareNick ==
    /\ cpc = "loop"
    /\ \E nick \in DOMAIN sqlModels \ visited :
          /\ nick \in DOMAIN pydModels
          /\ \E rightOrder \in Orders(DOMAIN pydModels[nick].Fields),
                leftOrder \in Orders(DOMAIN sqlModels[nick].Fields) :
                sb' = sb \o IterationText(nick, sqlModels, pydModels, rightOrder, leftOrder)
          /\ visited' = visited \cup {nick}
    /\ UNCHANGED <<sqlModels, pydModels, report, cpc>>

\* the outer loop is over
CompareReturn ==
    /\ cpc = "loop" /\ visited = DOMAIN sqlModels
    /\ report' = Result(sb)
    /\ cpc' = "done"
    /\ UNCHANGED <<sqlModels, pydModels, visited, sb>>

-----------------------------------------------------------------------------
(* Properties of CompareModels (SpecCompare) *)

Shared == DOMAIN sqlModels \cap DOMAIN pydModels

LeftFields(n) == DOMAIN sqlModels[n].Fields

RightFields(n) == DOMAIN pydModels[n].Fields

\* the fields of nickname n whose two types are different strings
Mismatched(n) ==
    {f \in LeftFields(n) \cap RightFields(n) :
        sqlModels[n].Fields[f].Type # pydModels[n].Fields[f].Type}

Clean(n) == LeftFields(n) = RightFields(n) /\ Mismatched(n) = {}

\* Reading a report back: the positions where the group of nickname n starts,
\* the end of the group that starts at k, the position of a label in the group
\* of n, and the pieces between a label and the end of its line.
GroupStarts(text, n) == {k \in 1..(Len(text) - 1) : text[k] = "Model " /\ text[k + 1] = n}

GroupEnd(text, k) == Min({j \in (k + 1)..Len(text) : text[j] = "Model "} \cup {Len(text) + 1})

LabelAt(text, n, label) ==
    {j \in 1..Len(text) : text[j] = label /\ \E k \in GroupStarts(text, n) : k < j /\ j < GroupEnd(text, k)}

LineEnd(text, j) == Min({e \in (j + 1)..Len(text) : text[e] = "\n"} \cup {Len(text) + 1})

\* the list after a label in the group of n, as a sequence of pieces; empty
\* when the group has no such label
ListAfter(text, n, label) ==
    LET at == LabelAt(text, n, label)
    IN IF at = {} THEN <<>> ELSE SubSeq(text, Min(at) + 1, LineEnd(text, Min(at)) - 1)

\* the names in a list of names
NamesIn(list) == {list[p] : p \in {q \in 1..Len(list) : list[q] # ", "}}

\* a list is well formed: items of `width` pieces separated by ", "
WellSeparated(list, width) ==
    /\ Len(list) % (width + 1) = width
    /\ \A p \in 1..Len(list) : (p % (width + 1) = 0) <=> list[p] = ", "

MissingLeftLabel == "  Missing in SQLAlchemy: "

MissingRightLabel == "  Missing in Pydantic: "

MismatchLabel == "  Type mismatches: "

\* C7: a nickname of one collection only contributes nothing: the step that
\* meets it writes nothing, no group of the report names it, and collections
\* with disjoint nickname sets yield "No mismatches found".
C7_OrphanStep ==
    (cpc = "loop" /\ \E n \in visited' \ visited : n \notin Shared) => sb' = sb

C7_OrphanInv ==
    /\ \A n \in (DOMAIN sqlModels \cup DOMAIN pydModels) \ Shared : GroupStarts(sb, n) = {}
    /\ (cpc = "done" /\ Shared = {}) => report = NoMismatches

C7_OrphansIgnored == [][C7_OrphanStep]_vars /\ [](C7_OrphanInv)

\* a comparison of two collections with disjoint, non-empty nickname sets
\* whose models have fields ended
C7_Witness ==
    /\ cpc = "done" /\ Shared = {}
    /\ \E n \in DOMAIN sqlModels : sqlModels[n].Fields # <<>>
    /\ \E n \in DOMAIN pydModels : pydModels[n].Fields # <<>>
    /\ report = NoMismatches

\* C8: for every shared nickname the report lists as missing in the left model
\* exactly the right model's fields absent from the left, once each, and as
\* missing in the right model exactly the left model's fields absent from the
\* right; it has the list if and only if there is such a field.
C8_MissingFields ==
    cpc = "done" =>
        \A n \in Shared :
            LET inLeft == ListAfter(report, n, MissingLeftLabel)
                inRight == ListAfter(report, n, MissingRightLabel)
                wantLeft == RightFields(n) \ LeftFields(n)
                wantRight == LeftFields(n) \ RightFields(n)
            IN /\ NamesIn(inLeft) = wantLeft
               /\ NamesIn(inRight) = wantRight
               /\ Cardinality(LabelAt(report, n, MissingLeftLabel)) = IF wantLeft = {} THEN 0 ELSE 1
               /\ Cardinality(LabelAt(report, n, MissingRightLabel)) = IF wantRight = {} THEN 0 ELSE 1
               /\ wantLeft # {} =>
                     WellSeparated(inLeft, 1) /\ Len(inLeft) = 2 * Cardinality(wantLeft) - 1
               /\ wantRight # {} =>
                     WellSeparated(inRight, 1) /\ Len(inRight) = 2 * Cardinality(wantRight) - 1

\* {id, email} against {id}, same types: email is reported missing in the
\* smaller (right) model and nothing else is reported
C8_Witness ==
    /\ cpc = "done"
    /\ \E n \in Shared :
          /\ LeftFields(n) = {"id", "email"} /\ RightFields(n) = {"id"}
          /\ Mismatched(n) = {}
          /\ ListAfter(report, n, MissingRightLabel) = <<"email">>
          /\ LabelAt(report, n, MissingLeftLabel) = {}
          /\ LabelAt(report, n, MismatchLabel) = {}

\* the items of a mismatch list: <<field, first type, second type>>
MismatchItems(list) ==
    {<<list[p], list[p + 2], list[p + 4]>> : p \in {q \in 1..Len(list) : q % 7 = 1}}

\* every item of a mismatch list reads  field (type != type)
MismatchFormat(list) ==
    /\ Len(list) % 7 = 6
    /\ \A p \in {q \in 1..Len(list) : q % 7 = 1} :
          list[p + 1] = " (" /\ list[p + 3] = " != " /\ list[p + 5] = ")"
    /\ \A p \in {q \in 1..Len(list) : q % 7 = 0} : list[p] = ", "

\* C9: for every shared nickname, a field of both models has a type-mismatch
\* entry if and only if its two types differ, each such field has one entry,
\* and the entry reads  field (leftType != rightType).
C9_TypeMismatches ==
    cpc = "done" =>
        \A n \in Shared :
            LET list == ListAfter(report, n, MismatchLabel)
                want == Mismatched(n)
            IN /\ Cardinality(LabelAt(report, n, MismatchLabel)) = IF want = {} THEN 0 ELSE 1
               /\ want # {} =>
                     /\ MismatchFormat(list)
                     /\ MismatchItems(list) =
                           {<<f, sqlModels[n].Fields[f].Type, pydModels[n].Fields[f].Type>> : f \in want}
                     /\ Len(list) = 7 * Cardinality(want) - 1

\* {id: integer} against {id: string} gives exactly  id (integer != string)
C9_Witness ==
    /\ cpc = "done"
    /\ \E n \in Shared :
          /\ LeftFields(n) = {"id"} /\ RightFields(n) = {"id"}
          /\ sqlModels[n].Fields["id"].Type = "integer"
          /\ pydModels[n].Fields["id"].Type = "string"
          /\ ListAfter(report, n, MismatchLabel) = <<"id", " (", "integer", " != ", "string", ")">>

\* C10: the result is "No mismatches found" if and only if no shared nickname
\* has a missing field or a type mismatch; a shared nickname without any adds
\* no text; the result is never the empty string.
C10_Sentinel ==
    cpc = "done" =>
        /\ report = NoMismatches <=> \A n \in Shared : Clean(n)
        /\ \A n \in Shared : Clean(n) => GroupStarts(report, n) = {}
        /\ \A n \in Shared : ~Clean(n) => Cardinality(GroupStarts(report, n)) = 1
        /\ report # <<>>
        /\ \A k \in 1..Len(report) : report[k] # ""

\* two models without fields under one nickname, and a second shared nickname
\* that does have a discrepancy
C10_Witness ==
    /\ cpc = "done"
    /\ \E n \in Shared : LeftFields(n) = {} /\ RightFields(n) = {} /\ GroupStarts(report, n) = {}
    /\ \E n \in Shared : ~Clean(n)
    /\ report # NoMismatches

\* what one iteration of the outer loop may write for nick, over the orders
\* in which the two inner loops may meet the fields
TextsOfNick(nick, sqlM, pydM) ==
    IF nick \notin DOMAIN pydM THEN {<<>>}
    ELSE {IterationText(nick, sqlM, pydM, rightOrder, leftOrder) :
             rightOrder \in Orders(DOMAIN pydM[nick].Fields),
             leftOrder \in Orders(DOMAIN sqlM[nick].Fields)}

\* what the builder may hold after the outer loop met the nicknames order[k..]
RECURSIVE RunTexts(_, _, _, _)
RunTexts(order, k, sqlM, pydM) ==
    IF k > Len(order) THEN {<<>>}
    ELSE {a \o b : a \in TextsOfNick(order[k], sqlM, pydM), b \in RunTexts(order, k + 1, sqlM, pydM)}

\* every string some run of CompareModels(sqlM, pydM) returns
Reports(sqlM, pydM) ==
    {Result(t) : t \in UNION {RunTexts(order, 1, sqlM, pydM) : order \in Orders(DOMAIN sqlM)}}

\* C12: CompareModels renders deterministically: for the same two
\* collections every run returns the same string, so the report a run
\* returns is the only report any run on these collections returns.
C12_Deterministic ==
    cpc = "done" => \A r \in Reports(sqlModels, pydModels) : r = report

-----------------------------------------------------------------------------
(* CompareModelsWithGrammars (grammar_integration.go lines 94-103)           *)

WithIdle == allModels = <<>> /\ schemaType1 = "" /\ schemaType2 = ""

\* models[schemaType]: the value and ok of a Go map index; a missing key
\* yields the zero value, a nil collection, which ranges as an empty one
LookupValue(m, schemaType) == IF schemaType \in DOMAIN m THEN m[schemaType] ELSE <<>>

LookupOk(m, schemaType) == schemaType \in DOMAIN m

\* the guard of line 98 with && in place of ||
NotFoundBoth(ok1, ok2) == ~ok1 /\ ~ok2

\* !ok1 || !ok2 (line 98)
NotFound(ok1, ok2) == ~ok1 \/ ~ok2

\* fmt.Sprintf("Schema types '%s' or '%s' not found", schemaType1, schemaType2)
NotFoundText(s1, s2) == <<"Schema types '", s1, "' or '", s2, "' ", "not found">>

\* lines 95-100: a schema type is not a key of allModels
WithNotFound ==
    /\ cpc = "lookup"
    /\ NotFound(LookupOk(allModels, schemaType1), LookupOk(allModels, schemaType2))
    /\ report' = NotFoundText(schemaType1, schemaType2)
    /\ cpc' = "done"
    /\ UNCHANGED <<sqlModels, pydModels, visited, sb, wgVars>>

\* lines 95-102: both found, CompareModels(models1, models2) is entered
WithCompare ==
    /\ cpc = "lookup"
    /\ ~NotFound(LookupOk(allModels, schemaType1), LookupOk(allModels, schemaType2))
    /\ sqlModels' = LookupValue(allModels, schemaType1)
    /\ pydModels' = LookupValue(allModels, schemaType2)
    /\ cpc' = "loop"
    /\ UNCHANGED <<visited, sb, report, wgVars>>

\* the inputs: schema types asked for, and scanned collections of one
\* nickname whose fields are typed integer or number
SchemaTypes == {"pydantic", "zod", "sqlalchemy"}

WithTypeNames == {"integer", "number"}

WithModels == {MakeModel(fm) : fm \in UNION {[S -> WithTypeNames] : S \in SUBSET FieldNames}}

WithCollections == UNION {[S -> WithModels] : S \in SUBSET {"user"}}

ScannedModels == UNION {[S -> WithCollections] : S \in SUBSET {"pydantic", "zod"}}

-----------------------------------------------------------------------------
(* Properties of CompareModelsWithGrammars (SpecWith) *)

Missing == schemaType1 \notin DOMAIN allModels \/ schemaType2 \notin DOMAIN allModels

Pieces(text) == {text[k] : k \in 1..Len(text)}

\* C11: when either schema type asked for is not a key of the scanned
\* collections, the call returns a string containing "not found" and never
\* enters the comparison (no collection is read, no nickname visited, nothing
\* is written to the builder), whatever the other collection holds; the call
\* always has a step to take, so it ends with a string and no error.
C11_NotFound ==
    Missing =>
        /\ cpc \in {"lookup", "done"}
        /\ cpc = "lookup" => ENABLED WithNotFound
        /\ sqlModels = <<>> /\ pydModels = <<>> /\ visited = {} /\ sb = <<>>
        /\ cpc = "done" => "not found" \in Pieces(report)

\* one schema type is missing while the other names a collection with a model
C11_Witness ==
    /\ cpc = "done"
    /\ schemaType1 \in DOMAIN allModels /\ schemaType2 \notin DOMAIN allModels
    /\ \E n \in DOMAIN allModels[schemaType1] : allModels[schemaType1][n].Fields # <<>>
    /\ "not found" \in Pieces(report)

\* the two collections asked for differ at most by fields typed integer on
\* one side and number on the other
OnlyIntegerVsNumber ==
    LET left == allModels[schemaType1]
        right == allModels[schemaType2]
    IN \A n \in DOMAIN left \cap DOMAIN right :
          /\ DOMAIN left[n].Fields = DOMAIN right[n].Fields
          /\ \A f \in DOMAIN left[n].Fields :
                \/ left[n].Fields[f].Type = right[n].Fields[f].Type
                \/ {left[n].Fields[f].Type, right[n].Fields[f].Type} = {"integer", "number"}

\* C13: through CompareModelsWithGrammars a field typed integer on one side
\* and number on the other under the same nickname is no type mismatch: when
\* that is the only difference the report is "No mismatches found".
C13_CrossLanguageEqual ==
    (cpc = "done" /\ ~Missing /\ OnlyIntegerVsNumber) => report = NoMismatches


-----------------------------------------------------------------------------
(* The collections of a scan as the input of a comparison (SpecScan) *)

\* the regions of the walk, of any dialect
AllRegions == RegionsFrom(mode, files, 1)

\* the loaded dialects that no region of the walk is tagged with
Regionless == {d \in DOMAIN grammars : \A k \in 1..Len(AllRegions) : AllRegions[k].block.Type # d}

\* the regions whose dialect tag names no loaded grammar
Untagged == {k \in 1..Len(AllRegions) : AllRegions[k].block.Type \notin DOMAIN grammars}

\* C30: after a successful scan of ParseFilesWithGrammars the key set of the
\* returned collections is the set of loaded grammar names, whatever regions
\* were scanned: a loaded dialect with no region has an empty collection, so
\* that comparing it yields "No mismatches found" and not "not found", and a
\* region whose dialect tag has no loaded grammar is passed over without an
\* error and makes no collection.
C30_KeysAreGrammars ==
    (mode = "grammar" /\ spc = "done" /\ BadGrammars = {}) =>
        /\ err = <<>> <=> Unparsed = {}
        /\ err = <<>> =>
              /\ results # <<>>
              /\ DOMAIN results[1] = {grammarDir[i].name : i \in 1..Len(grammarDir)}
              /\ \A k \in Untagged : AllRegions[k].block.Type \notin DOMAIN results[1]
              /\ \A d \in Regionless :
                    /\ results[1][d] = EmptyModels
                    /\ \A e \in DOMAIN results[1] :
                          /\ ~NotFound(LookupOk(results[1], d), LookupOk(results[1], e))
                          /\ Reports(LookupValue(results[1], d), LookupValue(results[1], e)) = {NoMismatches}
                          /\ Reports(LookupValue(results[1], e), LookupValue(results[1], d)) = {NoMismatches}

\* a successful scan with a loaded dialect that has no region, a collection
\* that holds a Model, and a passed-over region that has no model definition
C30_Witness ==
    /\ mode = "grammar" /\ spc = "done" /\ err = <<>> /\ results # <<>>
    /\ Regionless # {}
    /\ \E d \in DOMAIN results[1] : results[1][d] # EmptyModels
    /\ \E k \in Untagged : ~ModelOfRegion(AllRegions[k]).ok

-----------------------------------------------------------------------------
(* TypeEquivalenceMap (type_equivalence.go).  A type string is the sequence  *)
(* of its characters.                                                        *)

UpperLetters == <<"A", "B", "C", "D", "E", "F", "G", "H", "I", "J", "K", "L", "M", "N", "O", "P", "Q", "R", "S", "T", "U", "V", "W", "X", "Y", "Z">>

LowerLetters == <<"a", "b", "c", "d", "e", "f", "g", "h", "i", "j", "k", "l", "m", "n", "o", "p", "q", "r", "s", "t", "u", "v", "w", "x", "y", "z">>

\* strings.ToLower on ASCII text
ToLower(s) ==
    [k \in 1..Len(s) |->
        IF \E i \in 1..Len(UpperLetters) : UpperLetters[i] = s[k]
        THEN LowerLetters[CHOOSE i \in 1..Len(UpperLetters) : UpperLetters[i] = s[k]]
        ELSE s[k]]

\* strings.HasSuffix
HasSuffix(s, suffix) ==
    Len(s) >= Len(suffix) /\ SubSeq(s, Len(s) - Len(suffix) + 1, Len(s)) = suffix

\* strings.TrimSuffix
TrimSuffix(s, suffix) == IF HasSuffix(s, suffix) THEN SubSeq(s, 1, Len(s) - Len(suffix)) ELSE s

\* strings.LastIndex: 0-based offset of the last occurrence, -1 if none
LastIndex(s, sub) ==
    LET hits == {k \in 0..(Len(s) - Len(sub)) : SubSeq(s, k + 1, k + Len(sub)) = sub}
    IN IF hits = {} THEN -1 ELSE Max(hits)

\* the map literal of NewTypeEquivalenceMap (lines 13-57), entry by entry
BuiltInEntries ==
    <<
      [key |-> <<"n", "u", "m", "b", "e", "r">>,
       list |-> <<<<"i", "n", "t", "e", "g", "e", "r">>, <<"i", "n", "t">>, <<"f", "l", "o", "a", "t">>, <<"n", "u", "m", "b", "e", "r">>>>],
      [key |-> <<"i", "n", "t", "e", "g", "e", "r">>,
       list |-> <<<<"n", "u", "m", "b", "e", "r">>, <<"i", "n", "t">>, <<"i", "n", "t", "e", "g", "e", "r">>>>],
      [key |-> <<"i", "n", "t">>,
       list |-> <<<<"n", "u", "m", "b", "e", "r">>, <<"i", "n", "t", "e", "g", "e", "r">>, <<"i", "n", "t">>>>],
      [key |-> <<"f", "l", "o", "a", "t">>,
       list |-> <<<<"n", "u", "m", "b", "e", "r">>, <<"f", "l", "o", "a", "t">>>>],
      [key |-> <<"s", "t", "r", "i", "n", "g">>,
       list |-> <<<<"s", "t", "r">>, <<"s", "t", "r", "i", "n", "g">>, <<"t", "e", "x", "t">>>>],
      [key |-> <<"s", "t", "r">>,
       list |-> <<<<"s", "t", "r", "i", "n", "g">>, <<"s", "t", "r">>, <<"t", "e", "x", "t">>>>],
      [key |-> <<"t", "e", "x", "t">>,
       list |-> <<<<"s", "t", "r", "i", "n", "g">>, <<"s", "t", "r">>, <<"t", "e", "x", "t">>>>],
      [key |-> <<"b", "o", "o", "l", "e", "a", "n">>,
       list |-> <<<<"b", "o", "o", "l">>, <<"b", "o", "o", "l", "e", "a", "n">>>>],
      [key |-> <<"b", "o", "o", "l">>,
       list |-> <<<<"b", "o", "o", "l", "e", "a", "n">>, <<"b", "o", "o", "l">>>>],
      [key |-> <<"e", "m", "a", "i", "l">>,
       list |-> <<<<"e", "m", "a", "i", "l", "s", "t", "r">>, <<"e", "m", "a", "i", "l">>, <<"s", "t", "r", "i", "n", "g", "(", ")", ".", "e", "m", "a", "i", "l">>>>],
      [key |-> <<"e", "m", "a", "i", "l", "s", "t", "r">>,
       list |-> <<<<"e", "m", "a", "i", "l">>, <<"e", "m", "a", "i", "l", "s", "t", "r">>, <<"s", "t", "r", "i", "n", "g", "(", ")", ".", "e", "m", "a", "i", "l">>>>],
      [key |-> <<"s", "t", "r", "i", "n", "g", "(", ")", ".", "e", "m", "a", "i", "l">>,
       list |-> <<<<"e", "m", "a", "i", "l">>, <<"e", "m", "a", "i", "l", "s", "t", "r">>, <<"s", "t", "r", "i", "n", "g", "(", ")", ".", "e", "m", "a", "i", "l">>>>],
      [key |-> <<"u", "r", "l">>,
       list |-> <<<<"s", "t", "r", "i", "n", "g", "(", ")", ".", "u", "r", "l">>, <<"u", "r", "l">>>>],
      [key |-> <<"s", "t", "r", "i", "n", "g", "(", ")", ".", "u", "r", "l">>,
       list |-> <<<<"u", "r", "l">>, <<"s", "t", "r", "i", "n", "g", "(", ")", ".", "u", "r", "l">>>>],
      [key |-> <<"u", "u", "i", "d">>,
       list |-> <<<<"s", "t", "r", "i", "n", "g", "(", ")", ".", "u", "u", "i", "d">>, <<"u", "u", "i", "d">>>>],
      [key |-> <<"s", "t", "r", "i", "n", "g", "(", ")", ".", "u", "u", "i", "d">>,
       list |-> <<<<"u", "u", "i", "d">>, <<"s", "t", "r", "i", "n", "g", "(", ")", ".", "u", "u", "i", "d">>>>],
      [key |-> <<"d", "a", "t", "e", "t", "i", "m", "e">>,
       list |-> <<<<"d", "a", "t", "e">>, <<"d", "a", "t", "e", "t", "i", "m", "e">>, <<"t", "i", "m", "e", "s", "t", "a", "m", "p">>>>],
      [key |-> <<"d", "a", "t", "e">>,
       list |-> <<<<"d", "a", "t", "e", "t", "i", "m", "e">>, <<"d", "a", "t", "e">>, <<"t", "i", "m", "e", "s", "t", "a", "m", "p">>>>],
      [key |-> <<"t", "i", "m", "e", "s", "t", "a", "m", "p">>,
       list |-> <<<<"d", "a", "t", "e", "t", "i", "m", "e">>, <<"d", "a", "t", "e">>, <<"t", "i", "m", "e", "s", "t", "a", "m", "p">>>>],
      [key |-> <<"a", "r", "r", "a", "y">>,
       list |-> <<<<"a", "r", "r", "a", "y">>, <<"l", "i", "s", "t">>>>],
      [key |-> <<"l", "i", "s", "t">>,
       list |-> <<<<"a", "r", "r", "a", "y">>, <<"l", "i", "s", "t">>>>],
      [key |-> <<"s", "t", "r", "i", "n", "g", "[", "]">>,
       list |-> <<<<"a", "r", "r", "a", "y", "(", "s", "t", "r", "i", "n", "g", "(", ")", ")">>, <<"l", "i", "s", "t", "[", "s", "t", "r", "]">>, <<"s", "t", "r", "i", "n", "g", "[", "]">>>>],
      [key |-> <<"n", "u", "m", "b", "e", "r", "[", "]">>,
       list |-> <<<<"a", "r", "r", "a", "y", "(", "n", "u", "m", "b", "e", "r", "(", ")", ")">>, <<"l", "i", "s", "t", "[", "i", "n", "t", "]">>, <<"l", "i", "s", "t", "[", "f", "l", "o", "a", "t", "]">>, <<"n", "u", "m", "b", "e", "r", "[", "]">>>>],
      [key |-> <<"o", "b", "j", "e", "c", "t">>,
       list |-> <<<<"o", "b", "j", "e", "c", "t">>, <<"d", "i", "c", "t">>, <<"j", "s", "o", "n">>>>],
      [key |-> <<"d", "i", "c", "t">>,
       list |-> <<<<"o", "b", "j", "e", "c", "t">>, <<"d", "i", "c", "t">>, <<"j", "s", "o", "n">>>>],
      [key |-> <<"j", "s", "o", "n">>,
       list |-> <<<<"o", "b", "j", "e", "c", "t">>, <<"d", "i", "c", "t">>, <<"j", "s", "o", "n">>>>]
    >>

\* NewTypeEquivalenceMap().equivalences: type -> list of equivalent types
NewTypeEquivalenceMap ==
    [k \in {BuiltInEntries[i].key : i \in 1..Len(BuiltInEntries)} |->
        BuiltInEntries[CHOOSE i \in 1..Len(BuiltInEntries) : BuiltInEntries[i].key = k].list]

\* extractNullableType (lines 114-166): the base type and the nullable flag
extractNullableType(typeStr) ==
    LET t == TrimSpace(typeStr)
        start == Index(t, <<"[">>)
        end == LastIndex(t, <<"]">>)
        builderBase ==
            IF Contains(t, <<"s", "t", "r", "i", "n", "g">>) THEN <<<<"s", "t", "r", "i", "n", "g">>>>
            ELSE IF Contains(t, <<"n", "u", "m", "b", "e", "r">>) THEN <<<<"n", "u", "m", "b", "e", "r">>>>
            ELSE IF Contains(t, <<"b", "o", "o", "l", "e", "a", "n">>) THEN <<<<"b", "o", "o", "l", "e", "a", "n">>>>
            ELSE <<>>
    IN IF HasSuffix(t, <<"?">>)
       THEN [baseType |-> TrimSuffix(t, <<"?">>), isNullable |-> TRUE]
       ELSE IF HasSuffix(t, <<"|", " ", "n", "o", "n", "e">>)
       THEN [baseType |-> TrimSpace(TrimSuffix(t, <<"|", " ", "n", "o", "n", "e">>)), isNullable |-> TRUE]
       ELSE IF HasSuffix(t, <<"|", " ", "n", "u", "l", "l">>)
       THEN [baseType |-> TrimSpace(TrimSuffix(t, <<"|", " ", "n", "u", "l", "l">>)), isNullable |-> TRUE]
       ELSE IF Contains(t, <<"o", "p", "t", "i", "o", "n", "a", "l", "[">>) /\ start # -1 /\ end # -1 /\ end > start
       THEN [baseType |-> TrimSpace(SubSeq(t, start + 2, end)), isNullable |-> TRUE]
       ELSE IF Contains(t, <<".", "n", "u", "l", "l", "a", "b", "l", "e">>) /\ builderBase # <<>>
       THEN [baseType |-> builderBase[1], isNullable |-> TRUE]
       ELSE IF Contains(t, <<".", "o", "p", "t", "i", "o", "n", "a", "l">>) /\ builderBase # <<>>
       THEN [baseType |-> builderBase[1], isNullable |-> TRUE]
       ELSE [baseType |-> t, isNullable |-> FALSE]

\* whether list holds t (the loops of lines 94-98 and 103-107)
InList(list, t) == \E i \in 1..Len(list) : list[i] = t

\* areBaseTypesEquivalent that looks only in the list of its first argument
areBaseTypesEquivalentOneWay(tem, t1, t2) == t1 \in DOMAIN tem /\ InList(tem[t1], t2)

\* areBaseTypesEquivalent that compares the two base types as strings
areBaseTypesEquivalentSame(tem, t1, t2) == t1 = t2

\* areBaseTypesEquivalent that accepts two types found together in any list
areBaseTypesEquivalentChained(tem, t1, t2) ==
    \E k \in DOMAIN tem : InList(tem[k], t1) /\ InList(tem[k], t2)

\* areBaseTypesEquivalent (lines 91-111)
areBaseTypesEquivalent(tem, t1, t2) ==
    \/ t1 \in DOMAIN tem /\ InList(tem[t1], t2)
    \/ t2 \in DOMAIN tem /\ InList(tem[t2], t1)

\* the normalisation of lines 69-70
Normalize(t) == ToLower(TrimSpace(t))

\* the test of line 82 left out
NullableDifferNever(n1, n2) == FALSE

\* type1Nullable != type2Nullable (line 82)
NullableDiffer(n1, n2) == n1 # n2

\* AreTypesEquivalent (lines 62-88)
AreTypesEquivalent(tem, t1, t2) ==
    IF t1 = t2 THEN TRUE
    ELSE IF Normalize(t1) = Normalize(t2) THEN TRUE
    ELSE LET x1 == extractNullableType(Normalize(t1))
             x2 == extractNullableType(Normalize(t2))
         IN IF NullableDiffer(x1.isNullable, x2.isNullable) THEN FALSE
            ELSE areBaseTypesEquivalent(tem, x1.baseType, x2.baseType)

\* GetCanonicalType (lines 169-196)
GetCanonicalType(typeStr) ==
    LET x == extractNullableType(ToLower(TrimSpace(typeStr)))
        canonical ==
            IF x.baseType = <<"i", "n", "t">> THEN <<"i", "n", "t", "e", "g", "e", "r">>
            ELSE IF x.baseType = <<"i", "n", "t", "e", "g", "e", "r">> THEN <<"i", "n", "t", "e", "g", "e", "r">>
            ELSE IF x.baseType = <<"s", "t", "r">> THEN <<"s", "t", "r", "i", "n", "g">>
            ELSE IF x.baseType = <<"b", "o", "o", "l">> THEN <<"b", "o", "o", "l", "e", "a", "n">>
            ELSE IF x.baseType = <<"e", "m", "a", "i", "l", "s", "t", "r">> THEN <<"e", "m", "a", "i", "l">>
            ELSE IF x.baseType = <<"s", "t", "r", "i", "n", "g", "(", ")", ".", "e", "m", "a", "i", "l">> THEN <<"e", "m", "a", "i", "l">>
            ELSE IF x.baseType = <<"d", "a", "t", "e", "t", "i", "m", "e">> THEN <<"d", "a", "t", "e">>
            ELSE IF x.baseType = <<"t", "i", "m", "e", "s", "t", "a", "m", "p">> THEN <<"d", "a", "t", "e">>
            ELSE IF x.baseType = <<"d", "i", "c", "t">> THEN <<"o", "b", "j", "e", "c", "t">>
            ELSE IF x.baseType = <<"l", "i", "s", "t">> THEN <<"a", "r", "r", "a", "y">>
            ELSE x.baseType
    IN IF x.isNullable THEN canonical \o <<"?">> ELSE canonical

TypesIdle ==
    /\ equivalences = <<>> /\ type1 = <<>> /\ type2 = <<>> /\ equivalent = <<>>
    /\ baseType = <<>> /\ isNullable = <<>> /\ tpc = "idle"
    /\ primaryType = <<>> /\ equivalentTypes = <<>>

\* AreTypesEquivalent(type1, type2) returns at line 65
ExactMatch ==
    /\ tpc = "call" /\ type1 = type2
    /\ equivalent' = <<AreTypesEquivalent(equivalences, type1, type2)>>
    /\ tpc' = "done"
    /\ UNCHANGED <<equivalences, type1, type2, baseType, isNullable, primaryType, equivalentTypes>>

\* AreTypesEquivalent(type1, type2) returns at line 74
NormalizedMatch ==
    /\ tpc = "call" /\ type1 # type2 /\ Normalize(type1) = Normalize(type2)
    /\ equivalent' = <<AreTypesEquivalent(equivalences, type1, type2)>>
    /\ tpc' = "done"
    /\ UNCHANGED <<equivalences, type1, type2, baseType, isNullable, primaryType, equivalentTypes>>

\* AreTypesEquivalent(type1, type2) gets past line 75 and returns at line 83
\* or 87
StrippedCompare ==
    /\ tpc = "call" /\ Normalize(type1) # Normalize(type2)
    /\ equivalent' = <<AreTypesEquivalent(equivalences, type1, type2)>>
    /\ tpc' = "done"
    /\ UNCHANGED <<equivalences, type1, type2, baseType, isNullable, primaryType, equivalentTypes>>

\* extractNullableType(type1) called on its own
ExtractNullable ==
    /\ tpc = "call"
    /\ baseType' = extractNullableType(type1).baseType
    /\ isNullable' = <<extractNullableType(type1).isNullable>>
    /\ tpc' = "extracted"
    /\ UNCHANGED <<equivalences, type1, type2, equivalent, primaryType, equivalentTypes>>

\* tem.equivalences[k] = v
SetKey(tem, k, v) == [x \in DOMAIN tem \cup {k} |-> IF x = k THEN v ELSE tem[x]]

\* if _, exists := tem.equivalences[k]; !exists { tem.equivalences[k] = []string{k} }
EnsureKey(tem, k) == IF k \in DOMAIN tem THEN tem ELSE SetKey(tem, k, <<k>>)

\* the loop of lines 207-217 from its i-th iteration on
RECURSIVE AddLoop(_, _, _, _)
AddLoop(tem, primary, equivTypes, i) ==
    IF i > Len(equivTypes) THEN tem
    ELSE LET equivType == ToLower(TrimSpace(equivTypes[i]))
             t1 == SetKey(tem, primary, Append(tem[primary], equivType))
             t2 == EnsureKey(t1, equivType)
             t3 == SetKey(t2, equivType, Append(t2[equivType], primary))
         IN AddLoop(t3, primary, equivTypes, i + 1)

\* AddEquivalence (lines 199-218): the table after the call
AddEquivalence(tem, primary, equivTypes) ==
    LET p == ToLower(TrimSpace(primary))
    IN AddLoop(EnsureKey(tem, p), p, equivTypes, 1)

\* the number of list items of the table
RECURSIVE ItemCount(_, _)
ItemCount(tem, keys) ==
    IF keys = {} THEN 0
    ELSE LET k == CHOOSE x \in keys : TRUE
         IN Len(tem[k]) + ItemCount(tem, keys \ {k})

TableSize(tem) == ItemCount(tem, DOMAIN tem)

\* the type names AddEquivalence is called with
RegTokens ==
    {<<"D", "e", "c", "i", "m", "a", "l">>, <<"n", "u", "m", "b", "e", "r">>, <<"f", "o", "o", "?">>, <<"b", "a", "r", "?">>}

\* the type names the query after the calls is made with
QueryTokens == RegTokens \cup {<<"d", "e", "c", "i", "m", "a", "l">>}

EquivalentLists == UNION {[1..n -> RegTokens] : n \in 0..MaxEquivalents}

\* tem.AddEquivalence(primaryType, equivalentTypes...) on the map, before the
\* query
Register ==
    /\ tpc = "call"
    /\ TableSize(equivalences) < TableSize(NewTypeEquivalenceMap) + MaxGrowth
    /\ \E p \in RegTokens, es \in EquivalentLists :
          /\ primaryType' = p
          /\ equivalentTypes' = es
          /\ equivalences' = AddEquivalence(equivalences, p, es)
    /\ UNCHANGED <<type1, type2, equivalent, baseType, isNullable, tpc>>

\* the type strings the calls are made with
TypeStrings ==
    {
     <<"s", "t", "r", "i", "n", "g">>,
     <<"S", "t", "r", "i", "n", "g">>,
     <<" ", "s", "t", "r", "i", "n", "g", " ">>,
     <<"s", "t", "r">>,
     <<"t", "e", "x", "t">>,
     <<"n", "u", "m", "b", "e", "r">>,
     <<"i", "n", "t">>,
     <<"i", "n", "t", "e", "g", "e", "r">>,
     <<"I", "n", "t", "e", "g", "e", "r">>,
     <<"f", "l", "o", "a", "t">>,
     <<"b", "o", "o", "l">>,
     <<"b", "o", "o", "l", "e", "a", "n">>,
     <<"e", "m", "a", "i", "l">>,
     <<"e", "m", "a", "i", "l", "s", "t", "r">>,
     <<"E", "m", "a", "i", "l", "S", "t", "r">>,
     <<"s", "t", "r", "i", "n", "g", "(", ")", ".", "e", "m", "a", "i", "l">>,
     <<"s", "t", "r", "i", "n", "g", "[", "]">>,
     <<"l", "i", "s", "t", "[", "s", "t", "r", "]">>,
     <<"a", "r", "r", "a", "y", "(", "s", "t", "r", "i", "n", "g", "(", ")", ")">>,
     <<"f", "o", "o">>,
     <<"s", "t", "r", "i", "n", "g", "?">>,
     <<"s", "t", "r", "?">>,
     <<"n", "u", "m", "b", "e", "r", "?">>,
     <<"i", "n", "t", "e", "g", "e", "r", "?">>,
     <<"f", "o", "o", "?">>,
     <<"s", "t", "r", "i", "n", "g", " ", "?">>,
     <<"s", "t", "r", "i", "n", "g", " ", "|", " ", "n", "o", "n", "e">>,
     <<"s", "t", "r", " ", "|", " ", "N", "o", "n", "e">>,
     <<"i", "n", "t", " ", "|", " ", "n", "u", "l", "l">>,
     <<"f", "o", "o", " ", "|", " ", "n", "o", "n", "e">>,
     <<"o", "p", "t", "i", "o", "n", "a", "l", "[", "s", "t", "r", "]">>,
     <<"O", "p", "t", "i", "o", "n", "a", "l", "[", "i", "n", "t", "]">>,
     <<"o", "p", "t", "i", "o", "n", "a", "l", "[", " ", "s", "t", "r", "i", "n", "g", " ", "]">>,
     <<"l", "i", "s", "t", "[", "o", "p", "t", "i", "o", "n", "a", "l", "[", "i", "n", "t", "]", "]">>,
     <<"o", "p", "t", "i", "o", "n", "a", "l", "[">>,
     <<"s", "t", "r", "i", "n", "g", "(", ")", ".", "n", "u", "l", "l", "a", "b", "l", "e">>,
     <<"z", ".", "s", "t", "r", "i", "n", "g", "(", ")", ".", "n", "u", "l", "l", "a", "b", "l", "e", "(", ")">>,
     <<"n", "u", "m", "b", "e", "r", "(", ")", ".", "o", "p", "t", "i", "o", "n", "a", "l">>,
     <<"z", ".", "b", "o", "o", "l", "e", "a", "n", "(", ")", ".", "o", "p", "t", "i", "o", "n", "a", "l", "(", ")">>,
     <<"d", "a", "t", "e", "(", ")", ".", "n", "u", "l", "l", "a", "b", "l", "e", "(", ")">>,
     <<"z", ".", "n", "u", "m", "b", "e", "r", "(", ")", ".", "n", "u", "l", "l", "a", "b", "l", "e", "(", ")", ".", "d", "e", "s", "c", "r", "i", "b", "e", "(", "s", "t", "r", "i", "n", "g", ")">>
    }

-----------------------------------------------------------------------------
(* Properties of TypeEquivalenceMap (SpecTypes) *)

\* C14: on the built-in table AreTypesEquivalent is symmetric and reflexive:
\* the bool returned for (type1, type2) is the one the call with the two
\* arguments exchanged returns, and a call with twice the same string returns
\* true, also for a token that alias lists name and that has no entry.
C14_SymmetricReflexive ==
    tpc = "done" =>
        /\ equivalent[1] = AreTypesEquivalent(equivalences, type2, type1)
        /\ type1 = type2 => equivalent[1]

\* a key and a token of its alias list that has no entry of its own, found
\* equivalent with the entry-less token as first argument
C14_Witness ==
    /\ tpc = "done"
    /\ type1 = <<"l", "i", "s", "t", "[", "s", "t", "r", "]">> /\ type2 = <<"s", "t", "r", "i", "n", "g", "[", "]">>
    /\ type1 \notin DOMAIN equivalences
    /\ equivalent = <<TRUE>>

\* the nullable flag AreTypesEquivalent detects for an argument (lines 69-79)
Detected(t) == extractNullableType(Normalize(t)).isNullable

\* the base AreTypesEquivalent strips an argument to (lines 69-79)
Stripped(t) == extractNullableType(Normalize(t)).baseType

\* C15: AreTypesEquivalent returns false whenever exactly one of its two
\* arguments is detected as nullable, whether the two bases are the same
\* string, aliases of each other or unrelated.
C15_NullabilityMismatch ==
    (tpc = "done" /\ Detected(type1) # Detected(type2)) => equivalent = <<FALSE>>

\* str against string().nullable: aliased bases, one side nullable
C15_Witness ==
    /\ tpc = "done"
    /\ type1 = <<"s", "t", "r">> /\ type2 = <<"s", "t", "r", "i", "n", "g", "(", ")", ".", "n", "u", "l", "l", "a", "b", "l", "e">>
    /\ ~Detected(type1) /\ Detected(type2)
    /\ areBaseTypesEquivalent(equivalences, Stripped(type1), Stripped(type2))
    /\ equivalent = <<FALSE>>

\* the alias list of a exists and holds b
AliasListHolds(a, b) ==
    a \in DOMAIN equivalences /\ \E i \in 1..Len(equivalences[a]) : equivalences[a][i] = b

\* pairs the claim names as equivalent, and as not equivalent
NamedEquivalent ==
    {<<<<"i", "n", "t">>, <<"n", "u", "m", "b", "e", "r">>>>, <<<<"f", "l", "o", "a", "t">>, <<"n", "u", "m", "b", "e", "r">>>>, <<<<"s", "t", "r">>, <<"s", "t", "r", "i", "n", "g">>>>, <<<<"b", "o", "o", "l">>, <<"b", "o", "o", "l", "e", "a", "n">>>>, <<<<"e", "m", "a", "i", "l", "s", "t", "r">>, <<"e", "m", "a", "i", "l">>>>}

NamedDifferent ==
    {<<<<"s", "t", "r", "i", "n", "g">>, <<"n", "u", "m", "b", "e", "r">>>>, <<<<"i", "n", "t", "e", "g", "e", "r">>, <<"s", "t", "r", "i", "n", "g">>>>}

\* C16: when the two arguments differ after lower-casing and trimming and
\* have the same nullable flag, AreTypesEquivalent is true exactly when the
\* alias list of one stripped base holds the other stripped base, in either
\* direction; int/number, float/number, str/string, bool/boolean and
\* emailstr/email are equivalent, string/number and integer/string are not.
C16_AliasLookup ==
    tpc = "done" =>
        /\ (Normalize(type1) # Normalize(type2) /\ Detected(type1) = Detected(type2)) =>
              equivalent[1] = (\/ AliasListHolds(Stripped(type1), Stripped(type2))
                               \/ AliasListHolds(Stripped(type2), Stripped(type1)))
        /\ (<<type1, type2>> \in NamedEquivalent \/ <<type2, type1>> \in NamedEquivalent) =>
              equivalent = <<TRUE>>
        /\ (<<type1, type2>> \in NamedDifferent \/ <<type2, type1>> \in NamedDifferent) =>
              equivalent = <<FALSE>>

\* a nullable pair in two syntaxes whose bases are aliases of each other
C16_Witness ==
    /\ tpc = "done"
    /\ type1 = <<"i", "n", "t", " ", "|", " ", "n", "u", "l", "l">> /\ type2 = <<"n", "u", "m", "b", "e", "r", "?">>
    /\ Stripped(type1) # Stripped(type2)
    /\ Detected(type1) /\ Detected(type2)
    /\ equivalent = <<TRUE>>

\* strings.HasPrefix
HasPrefix(s, prefix) == Len(s) >= Len(prefix) /\ SubSeq(s, 1, Len(prefix)) = prefix

\* the builder base names in the order they are searched
BuilderBases == <<<<"s", "t", "r", "i", "n", "g">>, <<"n", "u", "m", "b", "e", "r">>, <<"b", "o", "o", "l", "e", "a", "n">>>>

\* the first of the three builder base names t contains, <<>> if none
FirstBuilderBase(t) ==
    LET found == {i \in 1..Len(BuilderBases) : Contains(t, BuilderBases[i])}
    IN IF found = {} THEN <<>> ELSE <<BuilderBases[Min(found)]>>

\* the five rules in their priority order, applied to t: the base and the flag
PriorityRules(t) ==
    IF HasSuffix(t, <<"?">>)
    THEN <<SubSeq(t, 1, Len(t) - 1), TRUE>>
    ELSE IF HasSuffix(t, <<"|", " ", "n", "o", "n", "e">>) \/ HasSuffix(t, <<"|", " ", "n", "u", "l", "l">>)
    THEN <<TrimSpace(SubSeq(t, 1, Len(t) - Len(<<"|", " ", "n", "o", "n", "e">>))), TRUE>>
    ELSE IF HasPrefix(t, <<"o", "p", "t", "i", "o", "n", "a", "l", "[">>) /\ HasSuffix(t, <<"]">>)
    THEN <<TrimSpace(SubSeq(t, Len(<<"o", "p", "t", "i", "o", "n", "a", "l", "[">>) + 1, Len(t) - 1)), TRUE>>
    ELSE IF (Contains(t, <<".", "n", "u", "l", "l", "a", "b", "l", "e">>) \/ Contains(t, <<".", "o", "p", "t", "i", "o", "n", "a", "l">>)) /\ FirstBuilderBase(t) # <<>>
    THEN <<FirstBuilderBase(t)[1], TRUE>>
    ELSE <<t, FALSE>>

\* C17: extractNullableType returns the base and flag of the first rule that
\* applies, in the order: trailing ?; trailing | none or | null; enclosing
\* optional[...] wrapper, base the text inside the brackets; .nullable or
\* .optional qualifier, base the first of string, number, boolean found;
\* otherwise the input unchanged and not nullable.  Stated for inputs without
\* surrounding whitespace, as both callers pass them.
C17_PriorityRules ==
    (tpc = "extracted" /\ type1 = TrimSpace(type1)) =>
        <<baseType, isNullable[1]>> = PriorityRules(type1)

\* the two arguments of the call are a and b, in either order
CalledWith(a, b) == (type1 = a /\ type2 = b) \/ (type1 = b /\ type2 = a)

\* C26: the built-in equivalence is not transitive for numeric types:
\* integer and number are equivalent and so are float and number, while
\* integer and float, and int and float, are not, so that CompareModels'
\* test on a float field against an integer field records a mismatch.
C26_NumericNotTransitive ==
    tpc = "done" =>
        /\ CalledWith(<<"i", "n", "t", "e", "g", "e", "r">>, <<"n", "u", "m", "b", "e", "r">>) => equivalent = <<TRUE>>
        /\ CalledWith(<<"f", "l", "o", "a", "t">>, <<"n", "u", "m", "b", "e", "r">>) => equivalent = <<TRUE>>
        /\ CalledWith(<<"i", "n", "t", "e", "g", "e", "r">>, <<"f", "l", "o", "a", "t">>) => equivalent = <<FALSE>> /\ TypesDiffer(type1, type2)
        /\ CalledWith(<<"i", "n", "t">>, <<"f", "l", "o", "a", "t">>) => equivalent = <<FALSE>> /\ TypesDiffer(type1, type2)

\* float against integer found different, each of the two being in the alias
\* list of number
C26_Witness ==
    /\ tpc = "done" /\ equivalent = <<FALSE>>
    /\ type1 = <<"f", "l", "o", "a", "t">> /\ type2 = <<"i", "n", "t", "e", "g", "e", "r">>
    /\ AliasListHolds(<<"n", "u", "m", "b", "e", "r">>, type1) /\ AliasListHolds(<<"n", "u", "m", "b", "e", "r">>, type2)

\* C27: AreTypesEquivalent returns true whenever nullability stripping gives
\* its two arguments the same base and the same nullability flag, also for a
\* base without an entry in the alias table and for nullability written in
\* two syntaxes (foo? and foo | none); two strings with equal
\* GetCanonicalType results are always equivalent.
C27_SameBaseSameFlag ==
    tpc = "done" =>
        /\ (Stripped(type1) = Stripped(type2) /\ Detected(type1) = Detected(type2)) =>
              equivalent = <<TRUE>>
        /\ GetCanonicalType(type1) = GetCanonicalType(type2) => equivalent = <<TRUE>>

\* the items of a list
Items(list) == {list[i] : i \in 1..Len(list)}

\* a step that is an AddEquivalence call
RegisterStep == tpc = "call" /\ tpc' = "call"

\* every pair of the call is equivalent after it, in both directions
C23_PairsHold ==
    \A e \in Items(equivalentTypes') :
        /\ AreTypesEquivalent(equivalences', primaryType', e)
        /\ AreTypesEquivalent(equivalences', e, primaryType')

\* a pair that was equivalent before the call is equivalent after it
C23_Monotone ==
    \A a, b \in QueryTokens :
        AreTypesEquivalent(equivalences, a, b) => AreTypesEquivalent(equivalences', a, b)

\* two equivalents of one call, neither being the primary type, are not
\* equivalent to each other after the call unless they were before it
C23_SiblingsApart ==
    \A a, b \in Items(equivalentTypes') :
        (/\ Normalize(a) # Normalize(primaryType') /\ Normalize(b) # Normalize(primaryType')
         /\ ~AreTypesEquivalent(equivalences, a, b)) =>
            ~AreTypesEquivalent(equivalences', a, b)

\* a query made with a pair of the latest call, in either order
C23_QueryStep ==
    (/\ tpc = "call" /\ tpc' = "done"
     /\ \E e \in Items(equivalentTypes) : CalledWith(primaryType, e)) =>
        equivalent' = <<TRUE>>

\* C23: after any sequence of AddEquivalence(primary, equivalents...) calls,
\* AreTypesEquivalent(primary, e) and AreTypesEquivalent(e, primary) are true
\* for every registered pair, every pair that was equivalent before a call is
\* equivalent after it, and two equivalents registered in one call are not
\* thereby made equivalent to each other.
C23_Registration ==
    [][/\ RegisterStep => (C23_PairsHold /\ C23_Monotone /\ C23_SiblingsApart)
       /\ C23_QueryStep]_vars

-----------------------------------------------------------------------------
(* GrammarEngine, declaration-style extraction (part_002 lines 108-272).     *)
(* A syntax-tree node is a record; an absent child is <<>>, a present one    *)
(* <<node>>; a text is the sequence of its characters, "" is <<>>.           *)

Leaf(kind, text) == [kind |-> kind, text |-> text, function |-> <<>>]

\* a call node and the text of its function child
CallNode(fn, text) == [kind |-> "call", text |-> text, function |-> <<Leaf("identifier", fn)>>]

AssignmentNode(text, left, type, right) ==
    [kind |-> "assignment", text |-> text, left |-> left, type |-> type, right |-> right]

\* a named child of the class body with its first named child
Statement(kind, child) == [kind |-> kind, child |-> child]

\* node.ChildByFieldName(name) on an assignment
ChildByFieldName(node, name) ==
    IF name \in {"left", "type", "right"} THEN node[name] ELSE <<>>

\* the named children of an assignment, in source order
NamedChildren(node) == node.left \o node.type \o node.right

\* node.NamedChild(i) guarded by i < node.NamedChildCount() (lines 213-217)
NamedChild(node, i) ==
    IF i < Len(NamedChildren(node)) THEN <<NamedChildren(node)[i + 1]>> ELSE <<>>

IsLetter(c) ==
    \E i \in 1..Len(UpperLetters) : UpperLetters[i] = c \/ LowerLetters[i] = c

\* the longest prefix of text made of letters
LeadingLetters(text) ==
    SubSeq(text, 1, Max({k \in 0..Len(text) : \A j \in 1..k : IsLetter(text[j])}))

\* the text patterns of the grammars: one that compiles, one that does not
LettersPattern == "^([A-Za-z]+)"

BrokenPattern == "("

\* whether regexp.MustCompile(pattern) returns; it panics otherwise
Compiles(pattern) == pattern # BrokenPattern

\* re.FindStringSubmatch(text): the match and its group, <<>> if no match
FindStringSubmatch(pattern, text) ==
    IF pattern = LettersPattern /\ LeadingLetters(text) # <<>>
    THEN <<LeadingLetters(text), LeadingLetters(text)>>
    ELSE <<>>

Extractor(fieldName, childIndex, textPattern) ==
    [FieldName |-> fieldName, ChildIndex |-> childIndex, TextPattern |-> textPattern]

\* extractFieldValue (lines 206-237): the string returned, or the panic of
\* MustCompile
extractFieldValue(node, extractor) ==
    LET targetNode ==
            IF extractor.FieldName # "" THEN ChildByFieldName(node, extractor.FieldName)
            ELSE IF extractor.ChildIndex # <<>> THEN NamedChild(node, extractor.ChildIndex[1])
            ELSE <<node>>
    IN IF targetNode = <<>> THEN [panic |-> FALSE, value |-> <<>>]
       ELSE IF extractor.TextPattern # ""
       THEN IF ~Compiles(extractor.TextPattern) THEN [panic |-> TRUE, value |-> <<>>]
            ELSE LET matches == FindStringSubmatch(extractor.TextPattern, targetNode[1].text)
                 IN [panic |-> FALSE, value |-> IF Len(matches) > 1 THEN matches[2] ELSE <<>>]
       ELSE [panic |-> FALSE, value |-> targetNode[1].text]

FuncNameColumn == "func_name == 'Column'"

\* evaluateCondition (lines 250-272)
evaluateCondition(node, condition) ==
    IF condition = "inside_class_body" THEN TRUE
    ELSE IF condition = FuncNameColumn
    THEN /\ node.right # <<>>
         /\ node.right[1].kind = "call"
         /\ node.right[1].function # <<>>
         /\ node.right[1].function[1].text = <<"C", "o", "l", "u", "m", "n">>
    ELSE FALSE

\* checkConditions (lines 240-247)
checkConditions(node, conditions) ==
    \A i \in 1..Len(conditions) : evaluateCondition(node, conditions[i])

NoField == [Name |-> <<>>, Type |-> <<>>]

NoMatch == [panic |-> FALSE, matched |-> FALSE, field |-> NoField]

Panic == [panic |-> TRUE, matched |-> FALSE, field |-> NoField]

\* matchPattern (lines 165-203)
matchPattern(stmt, pattern, typeMapping) ==
    IF stmt.kind # "expression_statement" THEN NoMatch
    ELSE IF stmt.child = <<>> \/ stmt.child[1].kind # "assignment" THEN NoMatch
    ELSE LET assign == stmt.child[1]
             fieldName == extractFieldValue(assign, pattern.FieldName)
             fieldType == extractFieldValue(assign, pattern.FieldType)
         IN IF fieldName.panic THEN Panic
            ELSE IF fieldName.value = <<>> THEN NoMatch
            ELSE IF HasPrefix(fieldName.value, <<"_", "_">>) THEN NoMatch
            ELSE IF fieldType.panic THEN Panic
            ELSE IF ~checkConditions(assign, pattern.Conditions) THEN NoMatch
            ELSE [panic |-> FALSE, matched |-> TRUE,
                  field |-> [Name |-> fieldName.value,
                             Type |-> IF fieldType.value \in DOMAIN typeMapping
                                      THEN typeMapping[fieldType.value]
                                      ELSE fieldType.value]]

\* an assignment that would keep the field a name already has
SetFieldKeepFirst(fs, field) ==
    [n \in DOMAIN fs \cup {field.Name} |-> IF n \in DOMAIN fs THEN fs[n] ELSE field]

\* fields[field.Name] = field (line 157)
SetField(fs, field) ==
    [n \in DOMAIN fs \cup {field.Name} |-> IF n = field.Name THEN field ELSE fs[n]]

\* the merge of lines 138-140: fields[name] = field for every pattern field
MergeFields(fs, pfs) ==
    [n \in DOMAIN fs \cup DOMAIN pfs |-> IF n \in DOMAIN pfs THEN pfs[n] ELSE fs[n]]

\* the index in root of the first class definition that has a name, 0 if
\* none (lines 113-123)
FindClass(nodes) ==
    LET found == {i \in 1..Len(nodes) : nodes[i].kind = "class_definition" /\ nodes[i].name # <<>>}
    IN IF found = {} THEN 0 ELSE Min(found)

EngineIdle ==
    /\ root = <<>> /\ grammar = <<>> /\ pIdx = 0 /\ sIdx = 0
    /\ patternFields = <<>> /\ fields = <<>> /\ parsed = <<>> /\ perr = <<>> /\ epc = "idle"
    /\ modelName = <<>> /\ objectExpr = <<>>

\* classBody of the region being extracted
ClassBody == root[FindClass(root)].body

\* no class definition: return Model{}, error (lines 125-127)
NoClassFound ==
    /\ epc = "find" /\ FindClass(root) = 0
    /\ parsed' = <<[Name |-> <<>>, Fields |-> <<>>]>>
    /\ perr' = <<"no class definition found">>
    /\ epc' = "done"
    /\ UNCHANGED <<root, grammar, pIdx, sIdx, patternFields, fields, modelName, objectExpr>>

\* the class is found: fields := make(map[string]Field) (line 129)
ClassFound ==
    /\ epc = "find" /\ FindClass(root) # 0
    /\ fields' = <<>> /\ pIdx' = 0
    /\ epc' = "rule"
    /\ UNCHANGED <<root, grammar, sIdx, patternFields, parsed, perr, modelName, objectExpr>>

\* the next pattern: extractFieldsWithPattern is entered (lines 132-133, 149)
RuleStart ==
    /\ epc = "rule" /\ pIdx < Len(grammar.Patterns)
    /\ patternFields' = <<>> /\ sIdx' = 0
    /\ epc' = "stmt"
    /\ UNCHANGED <<root, grammar, pIdx, fields, parsed, perr, modelName, objectExpr>>

\* the next statement matches the pattern (lines 152-158)
StmtMatched ==
    /\ epc = "stmt" /\ sIdx < Len(ClassBody)
    /\ LET m == matchPattern(ClassBody[sIdx + 1], grammar.Patterns[pIdx + 1], grammar.TypeMapping)
       IN /\ ~m.panic /\ m.matched
          /\ patternFields' = SetField(patternFields, m.field)
    /\ sIdx' = sIdx + 1
    /\ UNCHANGED <<root, grammar, pIdx, fields, parsed, perr, epc, modelName, objectExpr>>

\* the next statement does not match the pattern
StmtNotMatched ==
    /\ epc = "stmt" /\ sIdx < Len(ClassBody)
    /\ LET m == matchPattern(ClassBody[sIdx + 1], grammar.Patterns[pIdx + 1], grammar.TypeMapping)
       IN ~m.panic /\ ~m.matched
    /\ sIdx' = sIdx + 1
    /\ UNCHANGED <<root, grammar, pIdx, patternFields, fields, parsed, perr, epc, modelName, objectExpr>>

\* regexp.MustCompile panics on the pattern of an extractor (line 228): the
\* goroutine unwinds, nothing is returned
StmtPanics ==
    /\ epc = "stmt" /\ sIdx < Len(ClassBody)
    /\ matchPattern(ClassBody[sIdx + 1], grammar.Patterns[pIdx + 1], grammar.TypeMapping).panic
    /\ epc' = "panic"
    /\ UNCHANGED <<root, grammar, pIdx, sIdx, patternFields, fields, parsed, perr, modelName, objectExpr>>

\* the pattern has seen every statement: its fields are merged (lines 134-141)
RuleDone ==
    /\ epc = "stmt" /\ sIdx = Len(ClassBody)
    /\ fields' = MergeFields(fields, patternFields)
    /\ pIdx' = pIdx + 1
    /\ epc' = "rule"
    /\ UNCHANGED <<root, grammar, sIdx, patternFields, parsed, perr, modelName, objectExpr>>

\* every pattern is done: return Model{Name: className, Fields: fields}, nil
EngineReturn ==
    /\ epc = "rule" /\ pIdx = Len(grammar.Patterns)
    /\ parsed' = <<[Name |-> root[FindClass(root)].name[1].text, Fields |-> fields]>>
    /\ epc' = "done"
    /\ UNCHANGED <<root, grammar, pIdx, sIdx, patternFields, fields, perr, modelName, objectExpr>>

\* The class-body statements of the regions:
\*   id: int                  id = Column(Integer)      __tablename__ = "users"
\*   def f(self): pass        "doc"
TypedStmt ==
    Statement("expression_statement",
              <<AssignmentNode(<<"i", "d", ":", " ", "i", "n", "t">>, <<Leaf("identifier", <<"i", "d">>)>>, <<Leaf("type", <<"i", "n", "t">>)>>, <<>>)>>)

ColumnStmt ==
    Statement("expression_statement",
              <<AssignmentNode(<<"i", "d", " ", "=", " ", "C", "o", "l", "u", "m", "n", "(", "I", "n", "t", "e", "g", "e", "r", ")">>, <<Leaf("identifier", <<"i", "d">>)>>, <<>>,
                               <<CallNode(<<"C", "o", "l", "u", "m", "n">>, <<"C", "o", "l", "u", "m", "n", "(", "I", "n", "t", "e", "g", "e", "r", ")">>)>>)>>)

DunderStmt ==
    Statement("expression_statement",
              <<AssignmentNode(<<"_", "_", "t", "a", "b", "l", "e", "n", "a", "m", "e", "_", "_", " ", "=", " ", "'", "u", "s", "e", "r", "s", "'">>, <<Leaf("identifier", <<"_", "_", "t", "a", "b", "l", "e", "n", "a", "m", "e", "_", "_">>)>>, <<>>,
                               <<Leaf("string", <<"'", "u", "s", "e", "r", "s", "'">>)>>)>>)

DefStmt == Statement("function_definition", <<Leaf("identifier", <<"f">>)>>)

DocStmt == Statement("expression_statement", <<Leaf("string", <<"d">>)>>)

StatementPool == {TypedStmt, ColumnStmt, DunderStmt, DefStmt, DocStmt}

Bodies == UNION {[1..k -> StatementPool] : k \in 0..MaxStmts}

ImportNode == [kind |-> "import_statement", name |-> <<>>, body |-> <<>>]

ClassNode(body) == [kind |-> "class_definition", name |-> <<Leaf("identifier", <<"K">>)>>, body |-> body]

\* the regions: one without a class definition, and a class with each body
Roots == {<<ImportNode>>} \cup {<<ImportNode, ClassNode(body)>> : body \in Bodies}

\* The pattern rules of the grammars: typed_field and column_syntax of the
\* shipped grammars, a rule whose type pattern does not compile, and a rule
\* with child indexes and a condition the engine does not know.
TypedField ==
    [Name |-> "typed_field",
     FieldName |-> Extractor("left", <<>>, ""), FieldType |-> Extractor("type", <<>>, ""),
     Conditions |-> <<"inside_class_body">>]

ColumnSyntax ==
    [Name |-> "column_syntax",
     FieldName |-> Extractor("left", <<>>, ""), FieldType |-> Extractor("", <<>>, LettersPattern),
     Conditions |-> <<FuncNameColumn>>]

BrokenRule ==
    [Name |-> "broken_pattern",
     FieldName |-> Extractor("left", <<>>, ""), FieldType |-> Extractor("right", <<>>, BrokenPattern),
     Conditions |-> <<>>]

IndexedRule ==
    [Name |-> "indexed",
     FieldName |-> Extractor("", <<0>>, ""), FieldType |-> Extractor("", <<2>>, ""),
     Conditions |-> <<"inside_class_body", "has_default">>]

RulePool == {TypedField, ColumnSyntax, BrokenRule, IndexedRule}

BuiltInTypeMapping ==
    [t \in {<<"i", "n", "t">>, <<"s", "t", "r">>, <<"I", "n", "t", "e", "g", "e", "r">>} |->
        IF t = <<"s", "t", "r">> THEN <<"s", "t", "r", "i", "n", "g">> ELSE <<"i", "n", "t", "e", "g", "e", "r">>]

Grammars ==
    {[Patterns |-> ps, TypeMapping |-> BuiltInTypeMapping] :
        ps \in UNION {[1..k -> RulePool] : k \in 0..MaxRules}}

-----------------------------------------------------------------------------
(* GrammarEngine, object-literal extraction (part_002 lines 275-411)         *)

ExportNode(children) == [kind |-> "export_statement", children |-> children]

\* a lexical_declaration and its variable declarators
Declaration(declarators) == [kind |-> "lexical_declaration", children |-> declarators]

\* name = value; value is <<>> when the binding has no initialiser
Declarator(name, value) ==
    [kind |-> "variable_declarator", name |-> <<Leaf("identifier", name)>>, value |-> value]

\* a call and the named children of its argument list
CallExpression(text, arguments) ==
    [kind |-> "call_expression", text |-> text, function |-> <<>>, arguments |-> <<arguments>>]

ObjectNode(children) == [kind |-> "object", text |-> <<>>, function |-> <<>>, children |-> children]

\* key: value inside an object literal
Pair(key, value) ==
    [kind |-> "pair", key |-> <<Leaf("property_identifier", key)>>, value |-> <<value>>]

SchemaSuffix == <<"S", "c", "h", "e", "m", "a">>

\* the tests of lines 299-305 on the value of a declarator: the object
\* literal that is the first argument of the call, <<>> if there is none
FirstArgObject(value) ==
    IF value = <<>> THEN <<>>
    ELSE IF value[1].kind # "call_expression" THEN <<>>
    ELSE IF value[1].arguments = <<>> THEN <<>>
    ELSE IF Len(value[1].arguments[1]) = 0 THEN <<>>
    ELSE IF value[1].arguments[1][1].kind # "object" THEN <<>>
    ELSE <<value[1].arguments[1][1]>>

\* the loop of line 290 from its k-th declarator on: found is modelName and
\* objectExpr so far; the break of line 307 ends this loop only
RECURSIVE ScanDeclarators(_, _, _)
ScanDeclarators(declarators, k, found) ==
    IF k > Len(declarators) THEN found
    ELSE LET d == declarators[k]
         IN IF d.kind = "variable_declarator" /\ d.name # <<>> /\ HasSuffix(d.name[1].text, SchemaSuffix)
            THEN LET named == [found EXCEPT !.modelName = TrimSuffix(d.name[1].text, SchemaSuffix)]
                 IN IF FirstArgObject(d.value) # <<>>
                    THEN [named EXCEPT !.objectExpr = FirstArgObject(d.value)]
                    ELSE ScanDeclarators(declarators, k + 1, named)
            ELSE ScanDeclarators(declarators, k + 1, found)

\* the loop of line 286 over the children of an export statement
RECURSIVE ScanExport(_, _, _)
ScanExport(children, j, found) ==
    IF j > Len(children) THEN found
    ELSE ScanExport(children, j + 1,
                    IF children[j].kind = "lexical_declaration"
                    THEN ScanDeclarators(children[j].children, 1, found)
                    ELSE found)

\* the loop of line 282 over the top-level nodes
RECURSIVE ScanRoot(_, _, _)
ScanRoot(nodes, i, found) ==
    IF i > Len(nodes) THEN found
    ELSE ScanRoot(nodes, i + 1,
                  IF nodes[i].kind = "export_statement"
                  THEN ScanExport(nodes[i].children, 1, found)
                  ELSE found)

\* modelName and objectExpr at line 319
FindSchema(nodes) == ScanRoot(nodes, 1, [modelName |-> <<>>, objectExpr |-> <<>>])

ZString == <<"z", ".", "s", "t", "r", "i", "n", "g", "(", ")">>

ZNumber == <<"z", ".", "n", "u", "m", "b", "e", "r", "(", ")">>

ZBoolean == <<"z", ".", "b", "o", "o", "l", "e", "a", "n", "(", ")">>

ZDate == <<"z", ".", "d", "a", "t", "e", "(", ")">>

ZArray == <<"z", ".", "a", "r", "r", "a", "y", "(">>

DotEmail == <<".", "e", "m", "a", "i", "l", "(", ")">>

DotNullable == <<".", "n", "u", "l", "l", "a", "b", "l", "e", "(", ")">>

DotOptional == <<".", "o", "p", "t", "i", "o", "n", "a", "l", "(", ")">>

\* extractTypeScriptType (lines 369-411)
extractTypeScriptType(node) ==
    LET text == node.text
    IN IF Contains(text, ZString)
       THEN IF Contains(text, DotEmail) THEN <<"s", "t", "r", "i", "n", "g", "(", ")", ".", "e", "m", "a", "i", "l">>
            ELSE IF Contains(text, DotNullable) THEN <<"s", "t", "r", "i", "n", "g", "(", ")", ".", "n", "u", "l", "l", "a", "b", "l", "e">>
            ELSE IF Contains(text, DotOptional) THEN <<"s", "t", "r", "i", "n", "g", "(", ")", ".", "o", "p", "t", "i", "o", "n", "a", "l">>
            ELSE <<"s", "t", "r", "i", "n", "g">>
       ELSE IF Contains(text, ZNumber)
       THEN IF Contains(text, DotNullable) THEN <<"n", "u", "m", "b", "e", "r", "(", ")", ".", "n", "u", "l", "l", "a", "b", "l", "e">>
            ELSE IF Contains(text, DotOptional) THEN <<"n", "u", "m", "b", "e", "r", "(", ")", ".", "o", "p", "t", "i", "o", "n", "a", "l">>
            ELSE <<"n", "u", "m", "b", "e", "r">>
       ELSE IF Contains(text, ZBoolean)
       THEN IF Contains(text, DotNullable) THEN <<"b", "o", "o", "l", "e", "a", "n", "(", ")", ".", "n", "u", "l", "l", "a", "b", "l", "e">>
            ELSE IF Contains(text, DotOptional) THEN <<"b", "o", "o", "l", "e", "a", "n", "(", ")", ".", "o", "p", "t", "i", "o", "n", "a", "l">>
            ELSE <<"b", "o", "o", "l", "e", "a", "n">>
       ELSE IF Contains(text, ZDate) THEN <<"d", "a", "t", "e">>
       ELSE IF Contains(text, ZArray)
       THEN IF Contains(text, ZString) THEN <<"a", "r", "r", "a", "y", "(", "s", "t", "r", "i", "n", "g", "(", ")", ")">>
            ELSE IF Contains(text, ZNumber) THEN <<"a", "r", "r", "a", "y", "(", "n", "u", "m", "b", "e", "r", "(", ")", ")">>
            ELSE <<"a", "r", "r", "a", "y">>
       ELSE IF node.kind = "identifier" THEN <<"o", "b", "j", "e", "c", "t">>
       ELSE <<"u", "n", "k", "n", "o", "w", "n">>

\* matchTypeScriptPattern (lines 340-366); the pattern is not consulted
matchTypeScriptPattern(node, pattern, typeMapping) ==
    IF node.kind # "pair" THEN NoMatch
    ELSE IF node.key = <<>> THEN NoMatch
    ELSE IF node.value = <<>> THEN NoMatch
    ELSE LET fieldType == extractTypeScriptType(node.value[1])
         IN [panic |-> FALSE, matched |-> TRUE,
             field |-> [Name |-> node.key[1].text,
                        Type |-> IF fieldType \in DOMAIN typeMapping
                                 THEN typeMapping[fieldType]
                                 ELSE fieldType]]

\* the named children of the object literal
Props == objectExpr[1].children

\* no binding yields an object literal: return Model{}, error (lines 319-321)
NoSchemaFound ==
    /\ epc = "tsfind" /\ FindSchema(root).objectExpr = <<>>
    /\ modelName' = FindSchema(root).modelName
    /\ parsed' = <<[Name |-> <<>>, Fields |-> <<>>]>>
    /\ perr' = <<"no schema object found">>
    /\ epc' = "done"
    /\ UNCHANGED <<root, grammar, pIdx, sIdx, patternFields, fields, objectExpr>>

\* the loops of lines 282-317 end with an object literal (line 323)
SchemaFound ==
    /\ epc = "tsfind" /\ FindSchema(root).objectExpr # <<>>
    /\ modelName' = FindSchema(root).modelName
    /\ objectExpr' = FindSchema(root).objectExpr
    /\ fields' = <<>> /\ sIdx' = 0
    /\ epc' = "pair"
    /\ UNCHANGED <<root, grammar, pIdx, patternFields, parsed, perr>>

\* the next property is a pair and yields a field (lines 326-332)
PairMatched ==
    /\ epc = "pair" /\ sIdx < Len(Props)
    /\ Props[sIdx + 1].kind = "pair"
    /\ Len(grammar.Patterns) > 0
    /\ LET m == matchTypeScriptPattern(Props[sIdx + 1], grammar.Patterns[1], grammar.TypeMapping)
       IN /\ m.matched
          /\ fields' = SetField(fields, m.field)
    /\ sIdx' = sIdx + 1
    /\ UNCHANGED <<root, grammar, pIdx, patternFields, parsed, perr, epc, modelName, objectExpr>>

\* the next property is not a pair, or yields no field
PairNotMatched ==
    /\ epc = "pair" /\ sIdx < Len(Props)
    /\ \/ Props[sIdx + 1].kind # "pair"
       \/ /\ Len(grammar.Patterns) > 0
          /\ ~matchTypeScriptPattern(Props[sIdx + 1], grammar.Patterns[1], grammar.TypeMapping).matched
    /\ sIdx' = sIdx + 1
    /\ UNCHANGED <<root, grammar, pIdx, patternFields, fields, parsed, perr, epc, modelName, objectExpr>>

\* grammar.Patterns[0] on a grammar without patterns (line 330): the index is
\* out of range and the goroutine panics
PairPanics ==
    /\ epc = "pair" /\ sIdx < Len(Props)
    /\ Props[sIdx + 1].kind = "pair"
    /\ Len(grammar.Patterns) = 0
    /\ epc' = "panic"
    /\ UNCHANGED <<root, grammar, pIdx, sIdx, patternFields, fields, parsed, perr, modelName, objectExpr>>

\* every property is done: return Model{Name: modelName, Fields: fields}, nil
SchemaReturn ==
    /\ epc = "pair" /\ sIdx = Len(Props)
    /\ parsed' = <<[Name |-> modelName, Fields |-> fields]>>
    /\ epc' = "done"
    /\ UNCHANGED <<root, grammar, pIdx, sIdx, patternFields, fields, perr, modelName, objectExpr>>

\* The values of the pairs:
\*   z.string()  z.string().email()  z.string().nullable()  z.string().optional()
\*   z.string().email().optional()  z.number()  z.number().nullable()
\*   z.number().optional()  z.boolean()  z.boolean().optional()  z.date()
\*   z.array(z.string())  z.array(z.number())  z.array(z.boolean())
\*   z.enum(['a'])  UserSchema
ValuePool ==
    {Leaf("call_expression", <<"z", ".", "s", "t", "r", "i", "n", "g", "(", ")">>),
     Leaf("call_expression", <<"z", ".", "s", "t", "r", "i", "n", "g", "(", ")", ".", "e", "m", "a", "i", "l", "(", ")">>),
     Leaf("call_expression", <<"z", ".", "s", "t", "r", "i", "n", "g", "(", ")", ".", "n", "u", "l", "l", "a", "b", "l", "e", "(", ")">>),
     Leaf("call_expression", <<"z", ".", "s", "t", "r", "i", "n", "g", "(", ")", ".", "o", "p", "t", "i", "o", "n", "a", "l", "(", ")">>),
     Leaf("call_expression", <<"z", ".", "s", "t", "r", "i", "n", "g", "(", ")", ".", "e", "m", "a", "i", "l", "(", ")", ".", "o", "p", "t", "i", "o", "n", "a", "l", "(", ")">>),
     Leaf("call_expression", <<"z", ".", "n", "u", "m", "b", "e", "r", "(", ")">>),
     Leaf("call_expression", <<"z", ".", "n", "u", "m", "b", "e", "r", "(", ")", ".", "n", "u", "l", "l", "a", "b", "l", "e", "(", ")">>),
     Leaf("call_expression", <<"z", ".", "n", "u", "m", "b", "e", "r", "(", ")", ".", "o", "p", "t", "i", "o", "n", "a", "l", "(", ")">>),
     Leaf("call_expression", <<"z", ".", "b", "o", "o", "l", "e", "a", "n", "(", ")">>),
     Leaf("call_expression", <<"z", ".", "b", "o", "o", "l", "e", "a", "n", "(", ")", ".", "o", "p", "t", "i", "o", "n", "a", "l", "(", ")">>),
     Leaf("call_expression", <<"z", ".", "d", "a", "t", "e", "(", ")">>),
     Leaf("call_expression", <<"z", ".", "a", "r", "r", "a", "y", "(", "z", ".", "s", "t", "r", "i", "n", "g", "(", ")", ")">>),
     Leaf("call_expression", <<"z", ".", "a", "r", "r", "a", "y", "(", "z", ".", "n", "u", "m", "b", "e", "r", "(", ")", ")">>),
     Leaf("call_expression", <<"z", ".", "a", "r", "r", "a", "y", "(", "z", ".", "b", "o", "o", "l", "e", "a", "n", "(", ")", ")">>),
     Leaf("call_expression", <<"z", ".", "e", "n", "u", "m", "(", "[", "'", "a", "'", "]", ")">>),
     Leaf("identifier", <<"U", "s", "e", "r", "S", "c", "h", "e", "m", "a">>)}

\* The named children of the object literals: id: value for every value,
\* tags: z.array(z.string()), tags: z.string(), and the shorthand property id
PropPool ==
    {Pair(<<"i", "d">>, v) : v \in ValuePool}
        \cup {Pair(<<"t", "a", "g", "s">>, Leaf("call_expression", <<"z", ".", "a", "r", "r", "a", "y", "(", "z", ".", "s", "t", "r", "i", "n", "g", "(", ")", ")">>)),
               Pair(<<"t", "a", "g", "s">>, Leaf("call_expression", <<"z", ".", "s", "t", "r", "i", "n", "g", "(", ")">>)),
               Leaf("shorthand_property_identifier", <<"i", "d">>)}

Objects == {ObjectNode(ps) : ps \in UNION {[1..k -> PropPool] : k \in 0..MaxStmts}}

\* z.object(object)
ZObject(object) == <<CallExpression(<<"z", ".", "o", "b", "j", "e", "c", "t", "(", "{", "}", ")">>, <<object>>)>>

\* export const name = value;
ExportConst(name, value) == ExportNode(<<Declaration(<<Declarator(name, value)>>)>>)

\* export type User = z.infer<typeof UserSchema>;
ExportType == ExportNode(<<Leaf("type_alias_declaration", <<"U", "s", "e", "r">>)>>)

NumberObject == ObjectNode(<<Pair(<<"i", "d">>, Leaf("call_expression", <<"z", ".", "n", "u", "m", "b", "e", "r", "(", ")">>))>>)

TagsObject == ObjectNode(<<Pair(<<"t", "a", "g", "s">>, Leaf("call_expression", <<"z", ".", "a", "r", "r", "a", "y", "(", "z", ".", "s", "t", "r", "i", "n", "g", "(", ")", ")">>))>>)

\* z.array(z.string()) as the value of a binding
ZArrayCall == <<CallExpression(<<"z", ".", "a", "r", "r", "a", "y", "(", "z", ".", "s", "t", "r", "i", "n", "g", "(", ")", ")">>, <<Leaf("call_expression", <<"z", ".", "s", "t", "r", "i", "n", "g", "(", ")">>)>>)>>

\* The regions: UserSchema = z.object(...) with every object literal, and
\*   UserSchema = z.object(..); PostSchema = z.object(..)
\*   UserSchema = z.object(..); TagsSchema = z.array(z.string())
\*   TagsSchema = z.array(z.string()); UserSchema = z.object(..)
\*   TagsSchema = z.array(z.string())
\*   UserSchema = z.object(..), PostSchema = z.object(..) in one declaration
\*   UserSchema = z.object(..); let DraftSchema (no initialiser)
\*   limit = z.number(); const UserSchema = z.object(..) (not exported)
TsRoots ==
    {<<ImportNode, ExportConst(<<"U", "s", "e", "r", "S", "c", "h", "e", "m", "a">>, ZObject(o)), ExportType>> : o \in Objects}
        \cup { <<ExportConst(<<"U", "s", "e", "r", "S", "c", "h", "e", "m", "a">>, ZObject(NumberObject)), ExportConst(<<"P", "o", "s", "t", "S", "c", "h", "e", "m", "a">>, ZObject(TagsObject))>>,
                <<ExportConst(<<"U", "s", "e", "r", "S", "c", "h", "e", "m", "a">>, ZObject(NumberObject)), ExportConst(<<"T", "a", "g", "s", "S", "c", "h", "e", "m", "a">>, ZArrayCall)>>,
                <<ExportConst(<<"T", "a", "g", "s", "S", "c", "h", "e", "m", "a">>, ZArrayCall), ExportConst(<<"U", "s", "e", "r", "S", "c", "h", "e", "m", "a">>, ZObject(NumberObject))>>,
                <<ExportConst(<<"T", "a", "g", "s", "S", "c", "h", "e", "m", "a">>, ZArrayCall)>>,
                <<ExportNode(<<Declaration(<<Declarator(<<"U", "s", "e", "r", "S", "c", "h", "e", "m", "a">>, ZObject(NumberObject)),
                                             Declarator(<<"P", "o", "s", "t", "S", "c", "h", "e", "m", "a">>, ZObject(TagsObject))>>)>>)>>,
                <<ExportConst(<<"U", "s", "e", "r", "S", "c", "h", "e", "m", "a">>, ZObject(NumberObject)), ExportConst(<<"D", "r", "a", "f", "t", "S", "c", "h", "e", "m", "a">>, <<>>)>>,
                <<ExportConst(<<"l", "i", "m", "i", "t">>, <<Leaf("call_expression", <<"z", ".", "n", "u", "m", "b", "e", "r", "(", ")">>)>>),
                  Declaration(<<Declarator(<<"U", "s", "e", "r", "S", "c", "h", "e", "m", "a">>, ZObject(NumberObject))>>)>> }

\* the object_field rule and the type mapping of the zod grammar
ObjectField ==
    [Name |-> "object_field",
     FieldName |-> Extractor("field_name", <<>>, ""), FieldType |-> Extractor("", <<>>, "z\\.([a-zA-Z]+)"),
     Conditions |-> <<"inside_z_object">>]

ZodTypeMapping ==
    [t \in {<<"s", "t", "r", "i", "n", "g">>, <<"n", "u", "m", "b", "e", "r">>, <<"s", "t", "r", "i", "n", "g", "(", ")", ".", "e", "m", "a", "i", "l">>, <<"s", "t", "r", "i", "n", "g", "(", ")", ".", "n", "u", "l", "l", "a", "b", "l", "e">>} |->
        IF t = <<"s", "t", "r", "i", "n", "g", "(", ")", ".", "e", "m", "a", "i", "l">> THEN <<"e", "m", "a", "i", "l">>
        ELSE IF t = <<"s", "t", "r", "i", "n", "g", "(", ")", ".", "n", "u", "l", "l", "a", "b", "l", "e">> THEN <<"s", "t", "r", "i", "n", "g", "?">>
        ELSE t]

\* the zod grammar, and a grammar without patterns
TsGrammars ==
    {[Patterns |-> ps, TypeMapping |-> ZodTypeMapping] : ps \in {<<>>, <<ObjectField>>}}

-----------------------------------------------------------------------------
(* Properties of the grammar engine (SpecEngine) *)

\* the node an extractor selects in an assignment, <<>> if there is none
TargetOf(node, extractor) ==
    IF extractor.FieldName # "" THEN ChildByFieldName(node, extractor.FieldName)
    ELSE IF extractor.ChildIndex # <<>> THEN NamedChild(node, extractor.ChildIndex[1])
    ELSE <<node>>

\* the extractor finds no node, or its text pattern is not a valid pattern or
\* does not match the node's text
ExtractorFails(node, extractor) ==
    \/ TargetOf(node, extractor) = <<>>
    \/ /\ extractor.TextPattern # ""
       /\ \/ ~Compiles(extractor.TextPattern)
          \/ FindStringSubmatch(extractor.TextPattern, TargetOf(node, extractor)[1].text) = <<>>

\* a condition of the rule is false or not recognised
ConditionFails(node, conditions) ==
    \E i \in 1..Len(conditions) : ~evaluateCondition(node, conditions[i])

\* the rule fails on the statement
RuleFails(stmt, rule) ==
    /\ stmt.kind = "expression_statement"
    /\ stmt.child # <<>> /\ stmt.child[1].kind = "assignment"
    /\ \/ ExtractorFails(stmt.child[1], rule.FieldName)
       \/ ExtractorFails(stmt.child[1], rule.FieldType)
       \/ ConditionFails(stmt.child[1], rule.Conditions)

\* the rule being applied fails on the statement being looked at
RuleFailsHere ==
    /\ epc = "stmt" /\ sIdx < Len(ClassBody)
    /\ RuleFails(ClassBody[sIdx + 1], grammar.Patterns[pIdx + 1])

\* C20: a rule or condition that fails on a statement only means the rule
\* does not match that statement: no error and no abort results, and
\* extraction goes on with the next statement.
C20_FailureStep ==
    RuleFailsHere =>
        /\ epc' = "stmt" /\ sIdx' = sIdx + 1
        /\ perr' = <<>>

C20_RuleFailureIsLocal == [][C20_FailureStep]_vars

\* the extraction of a class body has returned a Model
DeclarationDone ==
    epc = "done" /\ perr = <<>> /\ objectExpr = <<>> /\ modelName = <<>> /\ FindClass(root) # 0

\* what rule p makes of statement i of the class body
MatchOf(i, p) == matchPattern(ClassBody[i], grammar.Patterns[p], grammar.TypeMapping)

\* the rules that match statement i, by their place in the grammar
MatchingRules(i) == {p \in 1..Len(grammar.Patterns) : MatchOf(i, p).matched}

\* statement i is the only statement of the body some rule makes a field
\* of that name of
OnlySource(i, name) ==
    \A j \in 1..Len(ClassBody) : \A p \in MatchingRules(j) :
        MatchOf(j, p).field.Name = name => j = i

\* C24: for each class-body statement, only the first pattern rule, in the
\* grammar's rule order, that matches the statement determines the field
\* produced for it; a later rule that also matches the same statement does
\* not replace that field's type. Stated for the statements that are the
\* only source of their field name.
C24_FirstMatchingRule ==
    DeclarationDone =>
        \A i \in 1..Len(ClassBody) :
            MatchingRules(i) # {} =>
                LET first == MatchOf(i, Min(MatchingRules(i))).field
                IN OnlySource(i, first.Name) =>
                       /\ first.Name \in DOMAIN parsed[1].Fields
                       /\ parsed[1].Fields[first.Name] = first

\* the rule and statement pairs that make a field named name
Producers(name) ==
    {ps \in (1..Len(grammar.Patterns)) \X (1..Len(ClassBody)) :
        MatchOf(ps[2], ps[1]).matched /\ MatchOf(ps[2], ps[1]).field.Name = name}

\* the field the last statement of the last rule makes of the name
LastProduced(name) ==
    LET lastRule == Max({ps[1] : ps \in Producers(name)})
        lastStmt == Max({ps[2] : ps \in {qs \in Producers(name) : qs[1] = lastRule}})
    IN MatchOf(lastStmt, lastRule).field

ProducedNames ==
    {MatchOf(i, p).field.Name :
        <<p, i>> \in {ps \in (1..Len(grammar.Patterns)) \X (1..Len(ClassBody)) : MatchOf(ps[2], ps[1]).matched}}

\* the extraction of an object literal has returned a Model
ObjectDone == epc = "done" /\ perr = <<>> /\ objectExpr # <<>>

\* what the grammar makes of property k of the object literal
PairOf(k) == matchTypeScriptPattern(Props[k], grammar.Patterns[1], grammar.TypeMapping)

\* the properties that make a field named name
PairProducers(name) == {k \in 1..Len(Props) : PairOf(k).matched /\ PairOf(k).field.Name = name}

\* C25: field names are unique within an extracted Model: when the same
\* field name is produced more than once in a region, the Model holds one
\* Field for it, taken from the later declaration within one rule and from
\* the later rule when two rules produce the same name; the Model holds a
\* Field for every name produced and for no other.
C25_LaterWins ==
    /\ DeclarationDone =>
           /\ DOMAIN parsed[1].Fields = ProducedNames
           /\ \A n \in DOMAIN parsed[1].Fields :
                  /\ parsed[1].Fields[n].Name = n
                  /\ parsed[1].Fields[n] = LastProduced(n)
    /\ ObjectDone =>
           IF Len(grammar.Patterns) = 0 THEN parsed[1].Fields = <<>>
           ELSE /\ DOMAIN parsed[1].Fields = {PairOf(k).field.Name : k \in {j \in 1..Len(Props) : PairOf(j).matched}}
                /\ \A n \in DOMAIN parsed[1].Fields :
                       /\ parsed[1].Fields[n].Name = n
                       /\ parsed[1].Fields[n] = PairOf(Max(PairProducers(n))).field

\* a Model is returned for a class body in which one name is made by two
\* rules, and by two statements under the last of them, with different types
C25_Witness ==
    /\ DeclarationDone
    /\ \E n \in ProducedNames :
           LET lastRule == Max({ps[1] : ps \in Producers(n)})
           IN /\ \E ps \in Producers(n) : ps[1] < lastRule /\ MatchOf(ps[2], ps[1]).field # LastProduced(n)
              /\ \E ps \in Producers(n) : ps[1] = lastRule /\ MatchOf(ps[2], ps[1]).field # LastProduced(n)

\* the base builder names and the qualifier names, in the order of the claim
BaseNames == <<<<"s", "t", "r", "i", "n", "g">>, <<"n", "u", "m", "b", "e", "r">>, <<"b", "o", "o", "l", "e", "a", "n">>, <<"d", "a", "t", "e">>>>

QualifierNames == <<<<"e", "m", "a", "i", "l">>, <<"n", "u", "l", "l", "a", "b", "l", "e">>, <<"o", "p", "t", "i", "o", "n", "a", "l">>>>

\* z.name()
BuilderCall(name) == <<"z", ".">> \o name \o <<"(", ")">>

\* .name()
QualifierCall(name) == <<".">> \o name \o <<"(", ")">>

\* the token of a value whose text is a call of the base builder name: the
\* base, composed with the first qualifier of the order that the text holds
Composed(text, name) ==
    LET held == {i \in 1..Len(QualifierNames) : Contains(text, QualifierCall(QualifierNames[i]))}
    IN IF held = {} THEN name
       ELSE name \o <<"(", ")", ".">> \o QualifierNames[Min(held)]

\* the token the classification rule gives a value, <<>> where the rule
\* names none (an array of another element type, a reference to a schema)
Classified(node) ==
    LET text == node.text
        bases == {i \in 1..Len(BaseNames) : HasPrefix(text, BuilderCall(BaseNames[i]))}
    IN IF HasPrefix(text, ZArray \o ZString) THEN <<<<"a", "r", "r", "a", "y", "(", "s", "t", "r", "i", "n", "g", "(", ")", ")">>>>
       ELSE IF HasPrefix(text, ZArray \o ZNumber) THEN <<<<"a", "r", "r", "a", "y", "(", "n", "u", "m", "b", "e", "r", "(", ")", ")">>>>
       ELSE IF HasPrefix(text, ZArray) \/ node.kind = "identifier" THEN <<>>
       ELSE IF bases # {} THEN <<Composed(text, BaseNames[Min(bases)])>>
       ELSE <<<<"u", "n", "k", "n", "o", "w", "n">>>>

\* the property the loop of line 326 has just handled is a pair
PairDone == epc = "pair" /\ sIdx > 0 /\ Props[sIdx].kind = "pair"

\* C22: object-literal extraction classifies each value into one token: the
\* recognized base builder call composed with the first matching qualifier
\* in the order format marker, nullable, optional; an array-of-string value
\* yields array(string()), not a string token; a value with no recognized
\* base yields unknown.  The field stored for the pair holds the token,
\* passed through the type mapping.
C22_OneToken ==
    PairDone =>
        LET key == Props[sIdx].key[1].text
            token == Classified(Props[sIdx].value[1])
        IN token # <<>> =>
              /\ key \in DOMAIN fields
              /\ fields[key].Type = IF token[1] \in DOMAIN grammar.TypeMapping
                                    THEN grammar.TypeMapping[token[1]]
                                    ELSE token[1]

\* the binding has the Schema suffix and a call with an object literal as
\* first argument for initialiser
Yielding(d) ==
    /\ d.kind = "variable_declarator" /\ d.name # <<>>
    /\ HasSuffix(d.name[1].text, SchemaSuffix)
    /\ FirstArgObject(d.value) # <<>>

\* the declarators of one declaration up to the first yielding one
RECURSIVE VisitedOf(_, _)
VisitedOf(declarators, k) ==
    IF k > Len(declarators) THEN <<>>
    ELSE IF Yielding(declarators[k]) THEN <<declarators[k]>>
    ELSE <<declarators[k]>> \o VisitedOf(declarators, k + 1)

RECURSIVE VisitedIn(_, _)
VisitedIn(children, j) ==
    IF j > Len(children) THEN <<>>
    ELSE (IF children[j].kind = "lexical_declaration" THEN VisitedOf(children[j].children, 1) ELSE <<>>)
         \o VisitedIn(children, j + 1)

\* the exported bindings the extraction looks at, in order
RECURSIVE Visited(_, _)
Visited(nodes, i) ==
    IF i > Len(nodes) THEN <<>>
    ELSE (IF nodes[i].kind = "export_statement" THEN VisitedIn(nodes[i].children, 1) ELSE <<>>)
         \o Visited(nodes, i + 1)

\* C29: object-literal extraction takes the Model name and the field set
\* from the same exported binding: the returned Model's name is the name,
\* minus the Schema suffix, of the binding whose object literal supplied the
\* fields, also when a later Schema binding is not initialised by a call
\* with an object literal as first argument.
C29_NameOfSupplier ==
    (epc = "done" /\ objectExpr # <<>>) =>
        LET vs == Visited(root, 1)
            ys == {k \in 1..Len(vs) : Yielding(vs[k])}
        IN /\ ys # {}
           /\ objectExpr = FirstArgObject(vs[Max(ys)].value)
           /\ parsed[1].Name = TrimSuffix(vs[Max(ys)].name[1].text, SchemaSuffix)

-----------------------------------------------------------------------------
(* Specifications *)

InitExtract ==
    /\ lines \in Texts(MaxLines)
    /\ lineIdx = 0 /\ current = <<>> /\ blocks = <<>> /\ returned = <<>>
    /\ xpc = "scan" /\ openLine = 0 /\ spans = <<>>
    /\ ScanIdle /\ CompareIdle /\ WithIdle /\ TypesIdle /\ EngineIdle

NextExtract ==
    \/ OutsideStart /\ UNCHANGED <<scVars, cmVars, wgVars, teVars, enVars>>
    \/ OutsideSkip /\ UNCHANGED <<scVars, cmVars, wgVars, teVars, enVars>>
    \/ InsideEnd /\ UNCHANGED <<scVars, cmVars, wgVars, teVars, enVars>>
    \/ InsideAppend /\ UNCHANGED <<scVars, cmVars, wgVars, teVars, enVars>>
    \/ ExtractReturn /\ UNCHANGED <<scVars, cmVars, wgVars, teVars, enVars>>

SpecExtract == InitExtract /\ [][NextExtract]_vars

InitScan ==
    /\ \/ /\ mode = "grammar" /\ grammarDir \in GrammarDirs /\ spc = "load" /\ results = <<>>
       \/ /\ mode = "legacy" /\ grammarDir = <<>> /\ spc = "walk" /\ results = <<LegacyResults>>
    /\ gIdx = 0 /\ grammars = <<>>
    /\ files \in Trees(MaxFiles)
    /\ fileIdx = 0 /\ fileBlocks = <<>> /\ blockIdx = 0 /\ err = <<>>
    /\ ExtractIdle /\ CompareIdle /\ WithIdle /\ TypesIdle /\ EngineIdle

NextScan ==
    \/ LoadGrammarOk /\ UNCHANGED <<exVars, cmVars, wgVars, teVars, enVars>>
    \/ LoadGrammarFail /\ UNCHANGED <<exVars, cmVars, wgVars, teVars, enVars>>
    \/ InitResults /\ UNCHANGED <<exVars, cmVars, wgVars, teVars, enVars>>
    \/ WalkSkipFile /\ UNCHANGED <<exVars, cmVars, wgVars, teVars, enVars>>
    \/ WalkOpenFile /\ UNCHANGED <<exVars, cmVars, wgVars, teVars, enVars>>
    \/ BlockSkip /\ UNCHANGED <<exVars, cmVars, wgVars, teVars, enVars>>
    \/ BlockMerge /\ UNCHANGED <<exVars, cmVars, wgVars, teVars, enVars>>
    \/ BlockFail /\ UNCHANGED <<exVars, cmVars, wgVars, teVars, enVars>>
    \/ FileDone /\ UNCHANGED <<exVars, cmVars, wgVars, teVars, enVars>>
    \/ WalkDone /\ UNCHANGED <<exVars, cmVars, wgVars, teVars, enVars>>

SpecScan == InitScan /\ [][NextScan]_vars

InitCompare ==
    /\ sqlModels \in Collections /\ pydModels \in Collections
    /\ visited = {} /\ sb = <<>> /\ report = <<>> /\ cpc = "loop"
    /\ ExtractIdle /\ ScanIdle /\ WithIdle /\ TypesIdle /\ EngineIdle

NextCompare ==
    \/ CompareSkip /\ UNCHANGED <<exVars, scVars, wgVars, teVars, enVars>>
    \/ CompareNick /\ UNCHANGED <<exVars, scVars, wgVars, teVars, enVars>>
    \/ CompareReturn /\ UNCHANGED <<exVars, scVars, wgVars, teVars, enVars>>

SpecCompare == InitCompare /\ [][NextCompare]_vars

InitWith ==
    /\ allModels \in ScannedModels
    /\ schemaType1 \in SchemaTypes /\ schemaType2 \in SchemaTypes
    /\ sqlModels = <<>> /\ pydModels = <<>> /\ visited = {} /\ sb = <<>>
    /\ report = <<>> /\ cpc = "lookup"
    /\ ExtractIdle /\ ScanIdle /\ TypesIdle /\ EngineIdle

NextWith ==
    \/ WithNotFound /\ UNCHANGED <<exVars, scVars, teVars, enVars>>
    \/ WithCompare /\ UNCHANGED <<exVars, scVars, teVars, enVars>>
    \/ CompareSkip /\ UNCHANGED <<exVars, scVars, wgVars, teVars, enVars>>
    \/ CompareNick /\ UNCHANGED <<exVars, scVars, wgVars, teVars, enVars>>
    \/ CompareReturn /\ UNCHANGED <<exVars, scVars, wgVars, teVars, enVars>>

SpecWith == InitWith /\ [][NextWith]_vars

InitTypes ==
    /\ equivalences = NewTypeEquivalenceMap
    /\ type1 \in TypeStrings /\ type2 \in TypeStrings
    /\ equivalent = <<>> /\ baseType = <<>> /\ isNullable = <<>> /\ tpc = "call"
    /\ primaryType = <<>> /\ equivalentTypes = <<>>
    /\ ExtractIdle /\ ScanIdle /\ CompareIdle /\ WithIdle /\ EngineIdle

NextTypes ==
    \/ ExactMatch /\ UNCHANGED <<exVars, scVars, cmVars, wgVars, enVars>>
    \/ NormalizedMatch /\ UNCHANGED <<exVars, scVars, cmVars, wgVars, enVars>>
    \/ StrippedCompare /\ UNCHANGED <<exVars, scVars, cmVars, wgVars, enVars>>
    \/ ExtractNullable /\ UNCHANGED <<exVars, scVars, cmVars, wgVars, enVars>>

SpecTypes == InitTypes /\ [][NextTypes]_vars

InitRegister ==
    /\ equivalences = NewTypeEquivalenceMap
    /\ type1 \in QueryTokens /\ type2 \in QueryTokens
    /\ equivalent = <<>> /\ baseType = <<>> /\ isNullable = <<>> /\ tpc = "call"
    /\ primaryType = <<>> /\ equivalentTypes = <<>>
    /\ ExtractIdle /\ ScanIdle /\ CompareIdle /\ WithIdle /\ EngineIdle

NextRegister ==
    \/ Register /\ UNCHANGED <<exVars, scVars, cmVars, wgVars, enVars>>
    \/ ExactMatch /\ UNCHANGED <<exVars, scVars, cmVars, wgVars, enVars>>
    \/ NormalizedMatch /\ UNCHANGED <<exVars, scVars, cmVars, wgVars, enVars>>
    \/ StrippedCompare /\ UNCHANGED <<exVars, scVars, cmVars, wgVars, enVars>>

SpecRegister == InitRegister /\ [][NextRegister]_vars

InitEngine ==
    /\ \/ epc = "find" /\ root \in Roots /\ grammar \in Grammars
       \/ epc = "tsfind" /\ root \in TsRoots /\ grammar \in TsGrammars
    /\ pIdx = 0 /\ sIdx = 0 /\ patternFields = <<>> /\ fields = <<>>
    /\ parsed = <<>> /\ perr = <<>> /\ modelName = <<>> /\ objectExpr = <<>>
    /\ ExtractIdle /\ ScanIdle /\ CompareIdle /\ WithIdle /\ TypesIdle

NextEngine ==
    \/ NoClassFound /\ UNCHANGED <<exVars, scVars, cmVars, wgVars, teVars>>
    \/ ClassFound /\ UNCHANGED <<exVars, scVars, cmVars, wgVars, teVars>>
    \/ RuleStart /\ UNCHANGED <<exVars, scVars, cmVars, wgVars, teVars>>
    \/ StmtMatched /\ UNCHANGED <<exVars, scVars, cmVars, wgVars, teVars>>
    \/ StmtNotMatched /\ UNCHANGED <<exVars, scVars, cmVars, wgVars, teVars>>
    \/ StmtPanics /\ UNCHANGED <<exVars, scVars, cmVars, wgVars, teVars>>
    \/ RuleDone /\ UNCHANGED <<exVars, scVars, cmVars, wgVars, teVars>>
    \/ EngineReturn /\ UNCHANGED <<exVars, scVars, cmVars, wgVars, teVars>>
    \/ NoSchemaFound /\ UNCHANGED <<exVars, scVars, cmVars, wgVars, teVars>>
    \/ SchemaFound /\ UNCHANGED <<exVars, scVars, cmVars, wgVars, teVars>>
    \/ PairMatched /\ UNCHANGED <<exVars, scVars, cmVars, wgVars, teVars>>
    \/ PairNotMatched /\ UNCHANGED <<exVars, scVars, cmVars, wgVars, teVars>>
    \/ PairPanics /\ UNCHANGED <<exVars, scVars, cmVars, wgVars, teVars>>
    \/ SchemaReturn /\ UNCHANGED <<exVars, scVars, cmVars, wgVars, teVars>>

SpecEngine == InitEngine /\ [][NextEngine]_vars

====
